---- MODULE Spec2Model ----
(***************************************************************************)
(* The in-world date allocation module of the Zeitachsen-Manager:          *)
(* tools/zeitachse/canon_time.py (configuration loader, matchday_date,     *)
(* allocate_inworld_date) and tools/zeitachse/app_timeaxis.py (matchday    *)
(* reverse lookup, allocator form, "Content -> Kalender").                 *)
(*                                                                         *)
(* Dates are proleptic Gregorian ordinals (Python's date.toordinal()); an  *)
(* ISO date string "YYYY-MM-DD" is the triple <<YYYY, MM, DD>> of its       *)
(* fields.  JSON values are tagged records.                                *)
(***************************************************************************)
EXTENDS Integers, Sequences, FiniteSets, TLC

----------------------------------------------------------------------------
(* Bounds of the model. *)

\* call arguments: seasons 1..MaxSeason
MaxSeason == 3
\* call arguments: matchdays 0..MaxMatchday (and the spec example's matchday 10)
MaxMatchday == 3
\* call arguments: offsets -MaxOffset..MaxOffset
MaxOffset == 2
\* configuration files: matchday_interval_days in -1..MaxInterval, or absent
MaxInterval == 3
\* probed calendar days: season start - 1 .. season start + MaxDayDelta
MaxDayDelta == 7
\* allocator form: matchdays 1..MaxFormMatchday
MaxFormMatchday == 2
\* events added in one session
MaxAdds == 1
\* events_store calls: uuid4() is called at most MaxUuid times
MaxUuid == 2

----------------------------------------------------------------------------
(* JSON values, as json.loads returns them. *)

JNull == [t |-> "null"]
JInt(i) == [t |-> "int", v |-> i]
JStr(s) == [t |-> "str", v |-> s]
JBool(b) == [t |-> "bool", v |-> b]
JList(s) == [t |-> "list", v |-> s]
JObj(f) == [t |-> "obj", v |-> f]

\* dict.get(key) / dict.get(key, default)
JGet(obj, key, default) == IF key \in DOMAIN obj.v THEN obj.v[key] ELSE default

\* A file: absent, or text that json.loads parses to a value, or text it rejects.
NoFile == [exists |-> FALSE]
JsonFile(j) == [exists |-> TRUE, wellformed |-> TRUE, json |-> j]
GarbageFile == [exists |-> TRUE, wellformed |-> FALSE]

----------------------------------------------------------------------------
(* Results of calls: a returned value, None, or a raised exception. *)

Ok(x) == [kind |-> "ok", val |-> x, err |-> ""]
None == [kind |-> "none", val |-> 0, err |-> ""]
Raise(e) == [kind |-> "raise", val |-> 0, err |-> e]
NotCalled == [kind |-> "notcalled", val |-> 0, err |-> ""]

ErrMissingSeason == "ValueError: Missing season_start for season"
ErrMatchday == "ValueError: matchday must be >= 1"
ErrUnknownType == "ValueError: Unknown content_type"
ErrOffset == "ValueError: Offset out of bounds"
ErrFuture == "ValueError: inWorldDate is after world_today"

----------------------------------------------------------------------------
(* datetime.date: ordinals and ISO strings. *)

IsLeap(y) == (y % 4 = 0) /\ ((y % 100 # 0) \/ (y % 400 = 0))

DaysInMonth(y, m) ==
    IF m = 2 THEN (IF IsLeap(y) THEN 29 ELSE 28)
    ELSE IF m \in {4, 6, 9, 11} THEN 30 ELSE 31

\* days of the year before the first of month m
DaysBeforeMonth(y, m) ==
    <<0, 31, 59, 90, 120, 151, 181, 212, 243, 273, 304, 334>>[m]
        + (IF m > 2 /\ IsLeap(y) THEN 1 ELSE 0)

DaysBeforeYear(y) ==
    (y - 1) * 365 + ((y - 1) \div 4) - ((y - 1) \div 100) + ((y - 1) \div 400)

\* date(y, m, d).toordinal()
ymd2ord(y, m, d) == DaysBeforeYear(y) + DaysBeforeMonth(y, m) + d

\* date.fromordinal(n): the year, then the month, then the day
ord2ymd(n) ==
    LET n0 == n - 1
        n400 == n0 \div 146097
        r400 == n0 % 146097
        n100 == r400 \div 36524
        r100 == r400 % 36524
        n4 == r100 \div 1461
        r4 == r100 % 1461
        n1 == r4 \div 365
        r1 == r4 % 365
        year == n400 * 400 + 1 + n100 * 100 + n4 * 4 + n1
    IN  IF n1 = 4 \/ n100 = 4 THEN <<year - 1, 12, 31>>
        ELSE LET month == CHOOSE m \in 1..12 :
                     /\ DaysBeforeMonth(year, m) <= r1
                     /\ r1 < DaysBeforeMonth(year, m) + DaysInMonth(year, m)
             IN  <<year, month, r1 - DaysBeforeMonth(year, month) + 1>>

\* date.fromisoformat(s): raises ValueError on a month or day out of range
fromisoformat(s) ==
    IF s.t # "str" THEN Raise("TypeError: fromisoformat: argument must be str")
    ELSE LET y == s.v[1]
             m == s.v[2]
             d == s.v[3]
         IN  IF y \in 1..9999 /\ m \in 1..12 /\ d >= 1 /\ d <= DaysInMonth(y, m)
             THEN Ok(ymd2ord(y, m, d))
             ELSE Raise("ValueError: Invalid isoformat string")

\* date.isoformat()
isoformat(n) == ord2ymd(n)

\* int(k) for a JSON object key
ParseInt(k) ==
    CASE k = "1" -> Ok(1)
      [] k = "2" -> Ok(2)
      [] k = "3" -> Ok(3)
      [] k = "4" -> Ok(4)
      [] OTHER -> Raise("ValueError: invalid literal for int()")

\* Python's a % b and a // b (floor; the remainder takes the divisor's sign)
PyMod(a, b) == IF b > 0 THEN a % b ELSE 0 - ((0 - a) % (0 - b))
PyFloorDiv(a, b) == IF b > 0 THEN a \div b ELSE (0 - a) \div (0 - b)

----------------------------------------------------------------------------
(* canon_time.load_config *)

\* isinstance(x, int): bool is a subclass of int
IsInt(x) == x.t \in {"int", "bool"}
IntOf(x) == IF x.t = "bool" THEN (IF x.v THEN 1 ELSE 0) ELSE x.v

RuleShapeOk(v) ==
    /\ v.t = "list"
    /\ Len(v.v) = 2
    /\ \A i \in 1..Len(v.v) : IsInt(v.v[i])

\* int(d.get("matchday_interval_days", 3))
IntervalOf(d) ==
    LET x == JGet(d, "matchday_interval_days", JInt(3))
    IN  IF IsInt(x) THEN Ok(IntOf(x))
        ELSE IF x.t = "str" THEN ParseInt(x.v)
        ELSE Raise("TypeError: int() argument")

load_config(file) ==
    IF ~file.exists THEN Raise("FileNotFoundError: Config not found")
    ELSE IF ~file.wellformed THEN Raise("JSONDecodeError")
    ELSE LET d == file.json IN
    IF d.t # "obj" THEN Raise("AttributeError: no attribute 'get'")
    ELSE LET season_start_raw == JGet(d, "season_start", JNull)
             offset_rules_raw == JGet(d, "offset_rules", JNull)
         IN
    IF season_start_raw.t # "obj" \/ DOMAIN season_start_raw.v = {}
    THEN Raise("ValueError: Config error: 'season_start' must be a non-empty object.")
    ELSE IF offset_rules_raw.t # "obj" \/ DOMAIN offset_rules_raw.v = {}
    THEN Raise("ValueError: Config error: 'offset_rules' must be a non-empty object.")
    ELSE IF \E k \in DOMAIN season_start_raw.v : ParseInt(k).kind # "ok"
    THEN Raise("ValueError: invalid literal for int()")
    ELSE IF \E k \in DOMAIN season_start_raw.v :
                fromisoformat(season_start_raw.v[k]).kind # "ok"
    THEN Raise("ValueError: Invalid isoformat string")
    ELSE IF \E k \in DOMAIN offset_rules_raw.v : ~RuleShapeOk(offset_rules_raw.v[k])
    THEN Raise("ValueError: Config error: offset_rules must be [min,max] ints.")
    ELSE IF "world_today" \notin DOMAIN d.v THEN Raise("KeyError: 'world_today'")
    ELSE IF fromisoformat(d.v["world_today"]).kind # "ok"
    THEN Raise("ValueError: Invalid isoformat string")
    ELSE IF IntervalOf(d).kind # "ok" THEN IntervalOf(d)
    ELSE LET keys == DOMAIN season_start_raw.v
             seasons == {ParseInt(k).val : k \in keys}
         IN  Ok([world_today |-> fromisoformat(d.v["world_today"]).val,
                 season_start |->
                     [s \in seasons |->
                         fromisoformat(season_start_raw.v[
                             CHOOSE k \in keys : ParseInt(k).val = s]).val],
                 matchday_interval_days |-> IntervalOf(d).val,
                 offset_rules |->
                     [k \in DOMAIN offset_rules_raw.v |->
                         <<IntOf(offset_rules_raw.v[k].v[1]),
                           IntOf(offset_rules_raw.v[k].v[2])>>]])

----------------------------------------------------------------------------
(* canon_time.matchday_date, canon_time.allocate_inworld_date *)

\* mutant: matchdays counted from 0
matchday_date_zero_based(cfg, season, matchday) ==
    IF season \notin DOMAIN cfg.season_start THEN Raise(ErrMissingSeason)
    ELSE IF matchday < 1 THEN Raise(ErrMatchday)
    ELSE Ok(cfg.season_start[season] + matchday * cfg.matchday_interval_days)

matchday_date(cfg, season, matchday) ==
    IF season \notin DOMAIN cfg.season_start THEN Raise(ErrMissingSeason)
    ELSE IF matchday < 1 THEN Raise(ErrMatchday)
    ELSE LET start == cfg.season_start[season]
         IN  Ok(start + (matchday - 1) * cfg.matchday_interval_days)

\* mutant: the gate compares with >= instead of >
allocate_gate_inclusive(cfg, season, matchday, content_type, offset_days, allow_future) ==
    LET base == matchday_date(cfg, season, matchday) IN
    IF base.kind # "ok" THEN base
    ELSE IF content_type \notin DOMAIN cfg.offset_rules THEN Raise(ErrUnknownType)
    ELSE IF ~(cfg.offset_rules[content_type][1] <= offset_days
              /\ offset_days <= cfg.offset_rules[content_type][2]) THEN Raise(ErrOffset)
    ELSE IF ~allow_future /\ base.val + offset_days >= cfg.world_today THEN Raise(ErrFuture)
    ELSE Ok(base.val + offset_days)

\* mutant: the gate ignores allow_future
allocate_gate_always(cfg, season, matchday, content_type, offset_days, allow_future) ==
    LET base == matchday_date(cfg, season, matchday) IN
    IF base.kind # "ok" THEN base
    ELSE IF content_type \notin DOMAIN cfg.offset_rules THEN Raise(ErrUnknownType)
    ELSE IF ~(cfg.offset_rules[content_type][1] <= offset_days
              /\ offset_days <= cfg.offset_rules[content_type][2]) THEN Raise(ErrOffset)
    ELSE IF base.val + offset_days > cfg.world_today THEN Raise(ErrFuture)
    ELSE Ok(base.val + offset_days)

\* mutant: the content type is checked before the season and the matchday
allocate_type_first(cfg, season, matchday, content_type, offset_days, allow_future) ==
    LET base == matchday_date(cfg, season, matchday) IN
    IF content_type \notin DOMAIN cfg.offset_rules THEN Raise(ErrUnknownType)
    ELSE IF base.kind # "ok" THEN base
    ELSE IF ~(cfg.offset_rules[content_type][1] <= offset_days
              /\ offset_days <= cfg.offset_rules[content_type][2]) THEN Raise(ErrOffset)
    ELSE IF ~allow_future /\ base.val + offset_days > cfg.world_today THEN Raise(ErrFuture)
    ELSE Ok(base.val + offset_days)

\* mutant: the offset is not added to the matchday date
allocate_offset_dropped(cfg, season, matchday, content_type, offset_days, allow_future) ==
    LET base == matchday_date(cfg, season, matchday) IN
    IF base.kind # "ok" THEN base
    ELSE IF content_type \notin DOMAIN cfg.offset_rules THEN Raise(ErrUnknownType)
    ELSE IF ~(cfg.offset_rules[content_type][1] <= offset_days
              /\ offset_days <= cfg.offset_rules[content_type][2]) THEN Raise(ErrOffset)
    ELSE IF ~allow_future /\ base.val > cfg.world_today THEN Raise(ErrFuture)
    ELSE Ok(base.val)

allocate_inworld_date(cfg, season, matchday, content_type, offset_days, allow_future) ==
    LET base == matchday_date(cfg, season, matchday) IN
    IF base.kind # "ok" THEN base
    ELSE IF content_type \notin DOMAIN cfg.offset_rules THEN Raise(ErrUnknownType)
    ELSE LET min_off == cfg.offset_rules[content_type][1]
             max_off == cfg.offset_rules[content_type][2]
         IN
    IF ~(min_off <= offset_days /\ offset_days <= max_off) THEN Raise(ErrOffset)
    ELSE LET d == base.val + offset_days IN
    IF ~allow_future /\ d > cfg.world_today THEN Raise(ErrFuture)
    ELSE Ok(d)

----------------------------------------------------------------------------
(* app_timeaxis.matchday_date, app_timeaxis.md_for_date *)

\* cfg.season_start.get(season); a date is always truthy
ui_matchday_date(cfg, season, matchday) ==
    IF season \notin DOMAIN cfg.season_start THEN Raise(ErrMissingSeason)
    ELSE IF matchday < 1 THEN Raise(ErrMatchday)
    ELSE Ok(cfg.season_start[season] + (matchday - 1) * cfg.matchday_interval_days)

md_for_date(cfg, season, d) ==
    IF season \notin DOMAIN cfg.season_start THEN None
    ELSE LET diff == d - cfg.season_start[season] IN
    IF diff < 0 THEN None
    ELSE IF cfg.matchday_interval_days = 0
    THEN Raise("ZeroDivisionError: integer modulo by zero")
    ELSE IF PyMod(diff, cfg.matchday_interval_days) # 0 THEN None
    ELSE Ok(PyFloorDiv(diff, cfg.matchday_interval_days) + 1)

----------------------------------------------------------------------------
(* state_store: UIState, load_state, save_state *)

DefaultUIState ==
    [season |-> 1, matchday |-> 1, content_type |-> "news", offset |-> 0,
     allow_future |-> FALSE]

\* int(x), str(x), bool(x) of a JSON value
PyInt(x) ==
    CASE x.t = "int" -> Ok(x.v)
      [] x.t = "bool" -> Ok(IF x.v THEN 1 ELSE 0)
      [] x.t = "str" -> ParseInt(x.v)
      [] OTHER -> Raise("TypeError: int() argument")

\* str(x) of a non-string is a text of one token
PyStr(x) ==
    CASE x.t = "str" -> x.v
      [] x.t = "int" -> <<ToString(x.v)>>
      [] x.t = "bool" -> (IF x.v THEN <<"True">> ELSE <<"False">>)
      [] x.t = "null" -> <<"None">>
      [] OTHER -> <<"<repr>">>

PyBool(x) ==
    CASE x.t = "bool" -> x.v
      [] x.t = "int" -> x.v # 0
      [] x.t = "str" -> Len(x.v) > 0
      [] x.t = "null" -> FALSE
      [] x.t = "list" -> Len(x.v) > 0
      [] OTHER -> DOMAIN x.v # {}

save_state(state) ==
    JsonFile(JObj([season |-> JInt(state.season),
                   matchday |-> JInt(state.matchday),
                   content_type |-> JStr(state.content_type),
                   offset |-> JInt(state.offset),
                   allow_future |-> JBool(state.allow_future)]))

\* mutant: the allow_future flag is not read back
load_state_without_flag(file) ==
    IF ~file.exists THEN DefaultUIState
    ELSE IF ~file.wellformed THEN DefaultUIState
    ELSE LET data == file.json IN
    IF data.t # "obj" THEN DefaultUIState
    ELSE LET s == PyInt(JGet(data, "season", JInt(1)))
             m == PyInt(JGet(data, "matchday", JInt(1)))
             o == PyInt(JGet(data, "offset", JInt(0)))
         IN  IF s.kind # "ok" \/ m.kind # "ok" \/ o.kind # "ok" THEN DefaultUIState
             ELSE [season |-> s.val,
                   matchday |-> m.val,
                   content_type |-> PyStr(JGet(data, "content_type", JStr("news"))),
                   offset |-> o.val,
                   allow_future |-> FALSE]

load_state(file) ==
    IF ~file.exists THEN DefaultUIState
    ELSE IF ~file.wellformed THEN DefaultUIState
    ELSE LET data == file.json IN
    IF data.t # "obj" THEN DefaultUIState
    ELSE LET s == PyInt(JGet(data, "season", JInt(1)))
             m == PyInt(JGet(data, "matchday", JInt(1)))
             o == PyInt(JGet(data, "offset", JInt(0)))
         IN  IF s.kind # "ok" \/ m.kind # "ok" \/ o.kind # "ok" THEN DefaultUIState
             ELSE [season |-> s.val,
                   matchday |-> m.val,
                   content_type |-> PyStr(JGet(data, "content_type", JStr("news"))),
                   offset |-> o.val,
                   allow_future |-> PyBool(JGet(data, "allow_future", JBool(FALSE)))]

\* STATE_PATH after delete_state(): unlinked if it exists
delete_state(file) == NoFile

----------------------------------------------------------------------------
(* events_store: CalendarEvent, load_events, save_events, add_event,       *)
(* delete_event, events_on, has_event_on.  A text is a sequence of tokens.  *)

\* mutant: every call gives the same id
uuid4hex_repeated(n) == <<"uuid4", 1>>

\* uuid4().hex of the n-th call: 128 random bits, taken to differ from every
\* other call's and from every id written by hand
uuid4hex(n) == <<"uuid4", n>>

IsSpace(tok) == tok \in {" ", "\t", "\n"}

\* str.strip()
RECURSIVE Strip(_)
Strip(text) ==
    IF text = <<>> THEN text
    ELSE IF IsSpace(Head(text)) THEN Strip(Tail(text))
    ELSE IF IsSpace(text[Len(text)]) THEN Strip(SubSeq(text, 1, Len(text) - 1))
    ELSE text

\* mutant: meta is not written
asdict_without_meta(e) ==
    JObj([id |-> JStr(e.id), date |-> JStr(e.date), title |-> JStr(e.title),
          notes |-> JStr(e.notes), kind |-> JStr(e.kind)])

\* dataclasses.asdict(e)
asdict(e) ==
    JObj([id |-> JStr(e.id), date |-> JStr(e.date), title |-> JStr(e.title),
          notes |-> JStr(e.notes), kind |-> JStr(e.kind), meta |-> e.meta])

\* mutant: an empty list is written
save_events_empty(evs) == JsonFile(JList(<<>>))

\* mutant: the last record is not written
save_events_without_last(evs) ==
    JsonFile(JList([i \in 1..(IF evs = <<>> THEN 0 ELSE Len(evs) - 1) |-> asdict(evs[i])]))

save_events(evs) == JsonFile(JList([i \in 1..Len(evs) |-> asdict(evs[i])]))

\* r.get("id") is missing or falsy: the record gets uuid4().hex
NeedsId(r) == ~PyBool(JGet(r, "id", JNull))

\* mutant: records that cannot be read are skipped, the others returned
load_events_skipping(file, first) ==
    IF ~file.exists THEN <<>>
    ELSE IF ~file.wellformed THEN <<>>
    ELSE LET raw == file.json IN
    IF raw.t # "list" THEN <<>>
    ELSE LET good == SelectSeq(raw.v, LAMBDA r : r.t = "obj" /\ "date" \in DOMAIN r.v
                                                /\ "title" \in DOMAIN r.v)
         IN  [i \in 1..Len(good) |->
                [id |-> IF NeedsId(good[i]) THEN uuid4hex(first + i - 1)
                        ELSE PyStr(good[i].v["id"]),
                 date |-> PyStr(good[i].v["date"]),
                 title |-> PyStr(good[i].v["title"]),
                 notes |-> PyStr(JGet(good[i], "notes", JStr(<<>>))),
                 kind |-> PyStr(JGet(good[i], "kind", JStr("free"))),
                 meta |-> JGet(good[i], "meta", JNull)]]

\* first: the number of the next uuid4() call
load_events(file, first) ==
    IF ~file.exists THEN <<>>
    ELSE IF ~file.wellformed THEN <<>>
    ELSE LET raw == file.json IN
    IF raw.t # "list" THEN <<>>
    ELSE IF \E i \in 1..Len(raw.v) :
               \/ raw.v[i].t # "obj"
               \/ "date" \notin DOMAIN raw.v[i].v
               \/ "title" \notin DOMAIN raw.v[i].v
    THEN <<>>
    ELSE [i \in 1..Len(raw.v) |->
            LET r == raw.v[i]
                calls == Cardinality({j \in 1..(i - 1) : NeedsId(raw.v[j])})
            IN
            [id |-> IF NeedsId(r) THEN uuid4hex(first + calls) ELSE PyStr(r.v["id"]),
             date |-> PyStr(r.v["date"]),
             title |-> PyStr(r.v["title"]),
             notes |-> PyStr(JGet(r, "notes", JStr(<<>>))),
             kind |-> PyStr(JGet(r, "kind", JStr("free"))),
             meta |-> JGet(r, "meta", JNull)]]

\* a record of the file on which the loop of load_events raises
BadRecord(r) ==
    \/ r.t # "obj"
    \/ "date" \notin DOMAIN r.v
    \/ "title" \notin DOMAIN r.v

\* the number of uuid4() calls load_events makes: one for each record without
\* an id, up to and including the record on which the loop raises
uuid_calls(file) ==
    IF ~file.exists THEN 0
    ELSE IF ~file.wellformed THEN 0
    ELSE LET raw == file.json IN
    IF raw.t # "list" THEN 0
    ELSE LET bad == {i \in 1..Len(raw.v) : BadRecord(raw.v[i])}
             seen == {i \in 1..Len(raw.v) : \A b \in bad : i <= b}
         IN  Cardinality({i \in seen : raw.v[i].t = "obj" /\ NeedsId(raw.v[i])})

\* the CalendarEvent add_event builds and returns
new_event(id, d, title, notes, kind, meta) ==
    [id |-> id, date |-> isoformat(d), title |-> Strip(title),
     notes |-> Strip(notes), kind |-> kind, meta |-> meta]

\* mutant: the new record is put first
add_event_in_front(evs, id, d, title, notes, kind, meta) ==
    <<new_event(id, d, title, notes, kind, meta)>> \o evs

\* the list after add_event
add_event(evs, id, d, title, notes, kind, meta) ==
    Append(evs, new_event(id, d, title, notes, kind, meta))

\* mutant: only the first record with the id is removed
delete_event_first_only(evs, event_id) ==
    LET hits == {i \in 1..Len(evs) : evs[i].id = event_id}
    IN  IF hits = {} THEN evs
        ELSE LET h == CHOOSE i \in hits : \A j \in hits : i <= j
             IN  SubSeq(evs, 1, h - 1) \o SubSeq(evs, h + 1, Len(evs))

\* the list after delete_event
delete_event(evs, event_id) == SelectSeq(evs, LAMBDA e : e.id # event_id)

\* mutant: add_event and delete_event save the list
file_autosaved(file, evs) == save_events(evs)

\* EVENTS_PATH after add_event or delete_event: neither writes it
file_after_edit(file, evs) == file

\* mutant: the search stops at the first record of the day
events_on_first_only(evs, d) ==
    LET iso == isoformat(d)
        hits == SelectSeq(evs, LAMBDA e : e.date = iso)
    IN  IF hits = <<>> THEN <<>> ELSE <<hits[1]>>

events_on(evs, d) ==
    LET iso == isoformat(d) IN SelectSeq(evs, LAMBDA e : e.date = iso)

has_event_on(evs, d) ==
    LET iso == isoformat(d) IN \E i \in 1..Len(evs) : evs[i].date = iso

----------------------------------------------------------------------------
(* State. *)

VARIABLES
    cfgFile,    \* canon_time_config.json on disk
    cfgRes,     \* what load_config(cfgFile) returned or raised
    season,     \* call argument: season
    matchday,   \* call argument: matchday
    content_type, \* call argument: content type
    offset_days,  \* call argument: offset_days
    retAlloc,   \* allow_future -> result of allocate_inworld_date(cfg, ..., allow_future)
    dIn,        \* call argument: a calendar day
    retMd,      \* result of canon_time.matchday_date(cfg, season, matchday)
    retTrip,    \* result of md_for_date(cfg, season, <the date matchday_date returned>)
    retRev,     \* result of md_for_date(cfg, season, dIn)
    retInv,     \* result of app_timeaxis.matchday_date(cfg, season, <the number md_for_date returned>)
    stateFile,  \* ui_state.json on disk
    ui_state,   \* st.session_state["ui_state"]: the allocator form's values
    eventsFile, \* events.json on disk
    events,     \* st.session_state["events"]
    picked_date, \* st.session_state["picked_date"]
    cal_year,   \* st.session_state["cal_year"]
    cal_month,  \* st.session_state["cal_month"]
    nextId,     \* number of the next uuid4() call
    lastCall,   \* the store call made last: its name, arguments and result
    cliOpts,    \* canon_time alloc: --allow-future, --write, --field, --dry-run
    targetFile, \* canon_time alloc: the JSON document --write names
    stdout,     \* canon_time alloc: the lines printed to standard output
    exitStatus, \* canon_time alloc: the exit status of the process
    sessions    \* browser sessions on one events.json: session -> its session_state

argVars == <<season, matchday, content_type, offset_days, retAlloc>>
mdVars == <<dIn, retMd, retTrip, retRev, retInv>>
uiVars == <<stateFile, ui_state, eventsFile, events, picked_date, cal_year, cal_month,
            nextId>>

storeVars == <<lastCall>>

cliVars == <<cliOpts, targetFile, stdout, exitStatus>>

vars == <<cfgFile, cfgRes, argVars, mdVars, uiVars, storeVars, cliVars, sessions>>

NoCall == [op |-> "none"]

\* no command line is running
CliIdle ==
    /\ cliOpts = [allow_future |-> FALSE, write |-> FALSE, field |-> "inWorldDate",
                  dry_run |-> FALSE]
    /\ targetFile = NoFile
    /\ stdout = <<>>
    /\ exitStatus = NotCalled

\* no browser session is open
NoSessions == [s \in {} |-> 0]

cfg == cfgRes.val

----------------------------------------------------------------------------
(* The configuration files and call arguments the model draws from. *)

\* the configuration of the specification's worked example
ExampleStart == <<2125, 7, 1>>
ExampleToday == <<2125, 7, 20>>

ConfigDoc(today, starts, interval, rules) ==
    JsonFile(JObj(
        IF interval.t = "null"
        THEN [k \in {"world_today", "season_start", "offset_rules"} |->
                CASE k = "world_today" -> JStr(today)
                  [] k = "season_start" -> JObj(starts)
                  [] k = "offset_rules" -> JObj(rules)]
        ELSE [k \in {"world_today", "season_start", "matchday_interval_days",
                     "offset_rules"} |->
                CASE k = "world_today" -> JStr(today)
                  [] k = "season_start" -> JObj(starts)
                  [] k = "matchday_interval_days" -> interval
                  [] k = "offset_rules" -> JObj(rules)]))

Rule(lo, hi) == JList(<<JInt(lo), JInt(hi)>>)

TodayDocs == {ExampleToday, <<2125, 7, 4>>}

StartDocs ==
    { [k \in {"1"} |-> JStr(ExampleStart)],
      [k \in {"1", "2"} |-> IF k = "1" THEN JStr(ExampleStart) ELSE JStr(<<2125, 6, 29>>)] }

\* absent (JNull here: the key is left out of the document) or an integer
IntervalDocs == {JNull} \cup {JInt(i) : i \in -1..MaxInterval}

RuleDocs ==
    { [k \in {"news"} |-> Rule(-1, 1)],
      [k \in {"news", "episode"} |-> IF k = "news" THEN Rule(-1, 1) ELSE Rule(0, 0)],
      [k \in {"news", "promo"} |-> IF k = "news" THEN Rule(2, -1) ELSE Rule(0, 2)] }

ConfigFiles ==
    { ConfigDoc(t, s, i, r) : t \in TodayDocs, s \in StartDocs,
                              i \in IntervalDocs, r \in RuleDocs }

ExampleConfigFile ==
    ConfigDoc(ExampleToday, [k \in {"1"} |-> JStr(ExampleStart)], JInt(3),
              [k \in {"news"} |-> Rule(-1, 1)])

Seasons == 1..MaxSeason
Matchdays == (0..MaxMatchday) \cup {10}
ContentTypes == {"news", "episode", "sim"}
Offsets == (0 - MaxOffset)..MaxOffset
Days == (ymd2ord(2125, 7, 1) - 1)..(ymd2ord(2125, 7, 1) + MaxDayDelta)

----------------------------------------------------------------------------
(* Calls of the allocator on a loaded configuration. *)

\* no interactive session is running
UiIdle ==
    /\ stateFile = NoFile
    /\ ui_state = DefaultUIState
    /\ eventsFile = NoFile
    /\ events = <<>>
    /\ picked_date = 0
    /\ cal_year = 0
    /\ cal_month = 0
    /\ nextId = 1
    /\ lastCall = NoCall
    /\ CliIdle
    /\ sessions = NoSessions

InitAlloc ==
    /\ cfgFile \in ConfigFiles
    /\ cfgRes = NotCalled
    /\ season \in Seasons
    /\ matchday \in Matchdays
    /\ content_type \in ContentTypes
    /\ offset_days \in Offsets
    /\ retAlloc = [b \in BOOLEAN |-> NotCalled]
    /\ dIn = 0
    /\ retMd = NotCalled
    /\ retTrip = NotCalled
    /\ retRev = NotCalled
    /\ retInv = NotCalled
    /\ UiIdle

LoadConfig ==
    /\ cfgRes.kind = "notcalled"
    /\ cfgRes' = load_config(cfgFile)
    /\ UNCHANGED <<cfgFile, argVars, mdVars, uiVars, storeVars, cliVars, sessions>>

Allocate(allow_future) ==
    /\ cfgRes.kind = "ok"
    /\ retAlloc[allow_future].kind = "notcalled"
    /\ retAlloc' = [retAlloc EXCEPT ![allow_future] =
           allocate_inworld_date(cfg, season, matchday, content_type, offset_days,
                                 allow_future)]
    /\ UNCHANGED <<cfgFile, cfgRes, season, matchday, content_type, offset_days,
                   mdVars, uiVars, storeVars, cliVars, sessions>>

NextAlloc ==
    \/ LoadConfig
    \/ \E allow_future \in BOOLEAN : Allocate(allow_future)

Spec == InitAlloc /\ [][NextAlloc]_vars

----------------------------------------------------------------------------
(* Calls of matchday_date and of the calendar's reverse lookup. *)

InitMd ==
    /\ cfgFile \in { ConfigDoc(ExampleToday, s, i, [k \in {"news"} |-> Rule(-1, 1)]) :
                       s \in StartDocs, i \in IntervalDocs }
    /\ cfgRes = NotCalled
    /\ season \in Seasons
    /\ matchday \in Matchdays
    /\ content_type = "news"
    /\ offset_days = 0
    /\ retAlloc = [b \in BOOLEAN |-> NotCalled]
    /\ dIn \in Days
    /\ retMd = NotCalled
    /\ retTrip = NotCalled
    /\ retRev = NotCalled
    /\ retInv = NotCalled
    /\ UiIdle

CallMatchdayDate ==
    /\ cfgRes.kind = "ok"
    /\ retMd.kind = "notcalled"
    /\ retMd' = matchday_date(cfg, season, matchday)
    /\ UNCHANGED <<cfgFile, cfgRes, argVars, dIn, retTrip, retRev, retInv, uiVars, storeVars, cliVars, sessions>>

\* md_for_date(cfg, season, matchday_date(cfg, season, matchday))
CallRoundTrip ==
    /\ retMd.kind = "ok"
    /\ retTrip.kind = "notcalled"
    /\ retTrip' = md_for_date(cfg, season, retMd.val)
    /\ UNCHANGED <<cfgFile, cfgRes, argVars, dIn, retMd, retRev, retInv, uiVars, storeVars, cliVars, sessions>>

\* md_for_date(cfg, season, d) for a day of the month grid
CallMdForDate ==
    /\ cfgRes.kind = "ok"
    /\ retRev.kind = "notcalled"
    /\ retRev' = md_for_date(cfg, season, dIn)
    /\ UNCHANGED <<cfgFile, cfgRes, argVars, dIn, retMd, retTrip, retInv, uiVars, storeVars, cliVars, sessions>>

\* matchday_date(cfg, season, md_for_date(cfg, season, d))
CallInverse ==
    /\ retRev.kind = "ok"
    /\ retInv.kind = "notcalled"
    /\ retInv' = ui_matchday_date(cfg, season, retRev.val)
    /\ UNCHANGED <<cfgFile, cfgRes, argVars, dIn, retMd, retTrip, retRev, uiVars, storeVars, cliVars, sessions>>

NextMd ==
    \/ LoadConfig
    \/ CallMatchdayDate
    \/ CallRoundTrip
    \/ CallMdForDate
    \/ CallInverse

SpecMd == InitMd /\ [][NextMd]_vars

----------------------------------------------------------------------------
(* Calls of load_config on configuration files of every shape. *)

\* a configuration document that load_config accepts
GoodDoc ==
    [k \in {"world_today", "season_start", "matchday_interval_days", "offset_rules"} |->
        CASE k = "world_today" -> JStr(ExampleToday)
          [] k = "season_start" -> JObj([s \in {"1"} |-> JStr(ExampleStart)])
          [] k = "matchday_interval_days" -> JInt(3)
          [] k = "offset_rules" -> JObj([c \in {"news"} |-> Rule(-1, 1)])]

\* the document with one key removed / with one key set to another value
Without(doc, key) == [k \in DOMAIN doc \ {key} |-> doc[k]]
With(doc, key, v) == [k \in DOMAIN doc \cup {key} |-> IF k = key THEN v ELSE doc[k]]

\* values of "season_start" and "offset_rules" that are not non-empty objects
NotASection == {JNull, JInt(1), JStr("x"), JList(<<>>), JList(<<JInt(1)>>),
                JObj([k \in {} |-> JNull])}

\* offset rules that are not [min, max] of JSON integers
BadRules ==
    {JNull, JInt(1), JStr("x"), JList(<<>>), JList(<<JInt(0)>>),
     JList(<<JInt(0), JInt(1), JInt(2)>>), JList(<<JInt(0), JStr("1")>>),
     JList(<<JInt(0), JNull>>), JList(<<JBool(TRUE), JBool(FALSE)>>),
     JList(<<JBool(FALSE), JInt(1)>>),
     JObj([k \in {"min", "max"} |-> JInt(0)])}

MalformedDocs ==
    {Without(GoodDoc, k) : k \in DOMAIN GoodDoc}
    \cup {With(GoodDoc, k, v) : k \in {"season_start", "offset_rules"}, v \in NotASection}
    \cup {With(GoodDoc, "offset_rules",
                JObj([c \in {"news", "sim"} |-> IF c = "news" THEN Rule(-1, 1) ELSE v])) :
              v \in BadRules}
    \cup {With(GoodDoc, "world_today", v) : v \in {JNull, JStr(<<2125, 2, 29>>)}}
    \cup {With(GoodDoc, "season_start", JObj([s \in {"1"} |-> v])) :
              v \in {JInt(1), JStr(<<2125, 13, 1>>)}}
    \cup {With(GoodDoc, "season_start", JObj([s \in {"x"} |-> JStr(ExampleStart)]))}
    \cup {With(GoodDoc, "matchday_interval_days", v) :
              v \in {JStr("2"), JStr("x"), JBool(TRUE), JList(<<>>)}}

LoadFiles ==
    ConfigFiles
    \cup {NoFile, GarbageFile, JsonFile(JNull), JsonFile(JList(<<>>)), JsonFile(JInt(1))}
    \cup {JsonFile(JObj(doc)) : doc \in MalformedDocs}

InitLoad ==
    /\ cfgFile \in LoadFiles
    /\ cfgRes = NotCalled
    /\ season = 1
    /\ matchday = 1
    /\ content_type = "news"
    /\ offset_days = 0
    /\ retAlloc = [b \in BOOLEAN |-> NotCalled]
    /\ dIn = 0
    /\ retMd = NotCalled
    /\ retTrip = NotCalled
    /\ retRev = NotCalled
    /\ retInv = NotCalled
    /\ UiIdle

NextLoad == LoadConfig

SpecLoad == InitLoad /\ [][NextLoad]_vars

----------------------------------------------------------------------------
(* app_timeaxis.render: one interactive session.  Every action is one       *)
(* script run, started by the widget the operator touched.                  *)

UIConfigFiles ==
    { ConfigDoc(<<2125, 7, 4>>, [k \in {"1"} |-> JStr(ExampleStart)], JInt(3),
                [k \in {"news", "episode"} |->
                    IF k = "news" THEN Rule(0, 1) ELSE Rule(0, 0)]) }

available_seasons == DOMAIN cfg.season_start

SetMin(S) == CHOOSE x \in S : \A y \in S : x <= y

\* mutant: the stored offset is passed on as it is
FormOffset_unclamped(min_off, max_off, stored) == stored

\* the offset widget's value when it is (re)created from the stored offset
FormOffset(min_off, max_off, stored) ==
    IF min_off = max_off THEN min_off
    ELSE IF stored < min_off \/ stored > max_off
         THEN (IF 0 >= min_off /\ 0 <= max_off THEN 0 ELSE min_off)
         ELSE stored

\* the form's widgets created from a stored UIState
FormOf(c, st) ==
    LET ct == IF st.content_type \in DOMAIN c.offset_rules THEN st.content_type
              ELSE CHOOSE k \in DOMAIN c.offset_rules : TRUE
    IN  [season |-> IF st.season \in DOMAIN c.season_start THEN st.season
                    ELSE SetMin(DOMAIN c.season_start),
         matchday |-> st.matchday,
         content_type |-> ct,
         offset |-> FormOffset(c.offset_rules[ct][1], c.offset_rules[ct][2], st.offset),
         allow_future |-> st.allow_future]

\* session_state["picked_date"] on the first run
FirstPicked(c, st) ==
    LET r == ui_matchday_date(c, st.season, st.matchday)
    IN  IF r.kind = "ok" THEN r.val ELSE c.season_start[SetMin(DOMAIN c.season_start)]

Upper(ct) ==
    CASE ct = "news" -> "NEWS"
      [] ct = "episode" -> "EPISODE"
      [] ct = "sim" -> "SIM"
      [] ct = "promo" -> "PROMO"
      [] OTHER -> "UPPER"

\* the title's en dash is written "-"
ContentTitle(st) ==
    <<Upper(st.content_type), " ", "-", " ", "S", ToString(st.season), " ", "MD",
      ToString(st.matchday), " ", "(off", " ", ToString(st.offset), ")">>

ContentMeta(st) ==
    JObj([season |-> JInt(st.season), matchday |-> JInt(st.matchday),
          content_type |-> JStr(st.content_type), offset |-> JInt(st.offset)])

\* mutant: the schedule action passes the form's checkbox
ScheduleAllowFuture_form(st) == st.allow_future

\* the allow_future argument of "Content -> Kalender"
ScheduleAllowFuture(st) == TRUE

\* mutant: "Berechnen" saves the form before it allocates
state_file_saved_first(file, st, r) == save_state(st)

\* ui_state.json after "Berechnen": written inside the try block, after the allocation
state_file_after_calc(file, st, r) == IF r.kind = "ok" THEN save_state(st) ELSE file

\* the titles typed into the free entry form
FreeTitles == {<<"Derby", " ">>, <<" ", "\t">>}

InitUI ==
    /\ cfgFile \in UIConfigFiles
    /\ cfgRes = load_config(cfgFile)
    /\ season = 1
    /\ matchday = 1
    /\ content_type = "news"
    /\ offset_days = 0
    /\ retAlloc = [b \in BOOLEAN |-> NotCalled]
    /\ dIn = 0
    /\ retMd = NotCalled
    /\ retTrip = NotCalled
    /\ retRev = NotCalled
    /\ retInv = NotCalled
    /\ stateFile = NoFile
    /\ eventsFile \in {NoFile, GarbageFile}
    /\ ui_state = FormOf(cfg, load_state(stateFile))
    /\ events = load_events(eventsFile, 1)
    /\ picked_date = FirstPicked(cfg, load_state(stateFile))
    /\ cal_year = ord2ymd(picked_date)[1]
    /\ cal_month = ord2ymd(picked_date)[2]
    /\ nextId = 1
    /\ lastCall = NoCall
    /\ CliIdle
    /\ sessions = NoSessions

\* every script run starts with load_config(CONFIG_PATH)
Rerun ==
    /\ cfgRes' = load_config(cfgFile)
    /\ UNCHANGED <<cfgFile, argVars, mdVars, storeVars, cliVars, sessions>>

EditSeason(s) ==
    /\ cfgRes.kind = "ok"
    /\ s \in available_seasons
    /\ ui_state' = [ui_state EXCEPT !.season = s]
    /\ UNCHANGED <<stateFile, eventsFile, events, picked_date, cal_year, cal_month, nextId>>
    /\ Rerun

EditMatchday(m) ==
    /\ cfgRes.kind = "ok"
    /\ m >= 1
    /\ ui_state' = [ui_state EXCEPT !.matchday = m]
    /\ UNCHANGED <<stateFile, eventsFile, events, picked_date, cal_year, cal_month, nextId>>
    /\ Rerun

EditType(ct) ==
    /\ cfgRes.kind = "ok"
    /\ ct \in DOMAIN cfg.offset_rules
    /\ ui_state' = [ui_state EXCEPT
           !.content_type = ct,
           !.offset = FormOffset(cfg.offset_rules[ct][1], cfg.offset_rules[ct][2],
                                 ui_state.offset)]
    /\ UNCHANGED <<stateFile, eventsFile, events, picked_date, cal_year, cal_month, nextId>>
    /\ Rerun

EditOffset(o) ==
    /\ cfgRes.kind = "ok"
    /\ cfg.offset_rules[ui_state.content_type][1] # cfg.offset_rules[ui_state.content_type][2]
    /\ cfg.offset_rules[ui_state.content_type][1] <= o
    /\ o <= cfg.offset_rules[ui_state.content_type][2]
    /\ ui_state' = [ui_state EXCEPT !.offset = o]
    /\ UNCHANGED <<stateFile, eventsFile, events, picked_date, cal_year, cal_month, nextId>>
    /\ Rerun

ToggleAllowFuture ==
    /\ cfgRes.kind = "ok"
    /\ ui_state' = [ui_state EXCEPT !.allow_future = ~ui_state.allow_future]
    /\ UNCHANGED <<stateFile, eventsFile, events, picked_date, cal_year, cal_month, nextId>>
    /\ Rerun

\* "Berechnen"
Berechnen ==
    /\ cfgRes.kind = "ok"
    /\ LET r == allocate_inworld_date(cfg, ui_state.season, ui_state.matchday,
                    ui_state.content_type, ui_state.offset, ui_state.allow_future)
       IN  /\ stateFile' = state_file_after_calc(stateFile, ui_state, r)
           /\ IF r.kind = "ok"
              THEN /\ picked_date' = r.val
                   /\ cal_year' = ord2ymd(r.val)[1]
                   /\ cal_month' = ord2ymd(r.val)[2]
              ELSE UNCHANGED <<picked_date, cal_year, cal_month>>
    /\ UNCHANGED <<ui_state, eventsFile, events, nextId>>
    /\ Rerun

\* "Content -> Kalender"
ContentToKalender ==
    /\ cfgRes.kind = "ok"
    /\ nextId <= MaxAdds
    /\ LET r == allocate_inworld_date(cfg, ui_state.season, ui_state.matchday,
                    ui_state.content_type, ui_state.offset,
                    ScheduleAllowFuture(ui_state))
       IN  IF r.kind = "ok"
           THEN /\ events' = add_event(events, uuid4hex(nextId), r.val,
                                       ContentTitle(ui_state),
                                       <<>>, "content", ContentMeta(ui_state))
                /\ nextId' = nextId + 1
                /\ eventsFile' = save_events(events')
                /\ picked_date' = r.val
                /\ cal_year' = ord2ymd(r.val)[1]
                /\ cal_month' = ord2ymd(r.val)[2]
                       ELSE UNCHANGED <<eventsFile, events, nextId, picked_date, cal_year,
                           cal_month>>
    /\ UNCHANGED <<stateFile, ui_state>>
    /\ Rerun

\* "World Today"
WorldToday ==
    /\ cfgRes.kind = "ok"
    /\ picked_date' = cfg.world_today
    /\ cal_year' = ord2ymd(cfg.world_today)[1]
    /\ cal_month' = ord2ymd(cfg.world_today)[2]
    /\ UNCHANGED <<stateFile, ui_state, eventsFile, events, nextId>>
    /\ Rerun

\* "Loeschen" on entry i of the picked day's list
DeleteEntry(i) ==
    /\ cfgRes.kind = "ok"
    /\ i \in 1..Len(events_on(events, picked_date))
    /\ events' = delete_event(events, events_on(events, picked_date)[i].id)
    /\ eventsFile' = save_events(events')
    /\ UNCHANGED <<stateFile, ui_state, picked_date, cal_year, cal_month, nextId>>
    /\ Rerun

\* "Freien Eintrag speichern" on the picked day
FreeEntry(free_title) ==
    /\ cfgRes.kind = "ok"
    /\ IF Strip(free_title) = <<>>
       THEN UNCHANGED <<eventsFile, events, nextId>>
       ELSE /\ nextId <= MaxAdds
            /\ events' = add_event(events, uuid4hex(nextId), picked_date, free_title,
                                   <<>>, "free", JNull)
            /\ nextId' = nextId + 1
            /\ eventsFile' = save_events(events')
    /\ UNCHANGED <<stateFile, ui_state, picked_date, cal_year, cal_month>>
    /\ Rerun

NextUI ==
    \/ \E s \in Seasons : EditSeason(s)
    \/ \E m \in 1..MaxFormMatchday : EditMatchday(m)
    \/ \E ct \in ContentTypes : EditType(ct)
    \/ \E o \in Offsets : EditOffset(o)
    \/ ToggleAllowFuture
    \/ Berechnen
    \/ ContentToKalender
    \/ WorldToday
    \/ \E i \in 1..MaxAdds : DeleteEntry(i)
    \/ \E free_title \in FreeTitles : FreeEntry(free_title)

SpecUI == InitUI /\ [][NextUI]_vars

----------------------------------------------------------------------------
(* Calls of the events_store functions on one events.json and one in-memory *)
(* list, as app_timeaxis makes them: load_events when a session starts,     *)
(* add_event, delete_event, save_events, events_on, has_event_on.           *)

FileRecord(id, d, title, notes, kind, meta) ==
    JObj([id |-> id, date |-> d, title |-> title, notes |-> notes, kind |-> kind,
          meta |-> meta])

\* records of an events.json written by an earlier session or by hand
RecDerby ==
    FileRecord(JStr(<<"e1">>), JStr(<<2125, 7, 1>>), JStr(<<"Derby">>), JStr(<<>>),
               JStr("free"), JNull)
\* the same id again, on another day
RecTwin ==
    FileRecord(JStr(<<"e1">>), JStr(<<2125, 7, 2>>), JStr(<<"Twin">>), JStr(<<"n">>),
               JStr("free"), JNull)
\* only the required keys
RecBare == JObj([k \in {"date", "title"} |-> JStr(IF k = "date" THEN <<2125, 7, 1>>
                                                               ELSE <<"Bare">>)])
\* an empty id, a date that is not zero-padded, a number as title
RecOdd ==
    FileRecord(JStr(<<>>), JStr(<<"2125-7-1">>), JInt(7), JNull, JStr("free"), JNull)
RecNoTitle == JObj([k \in {"id", "date"} |-> JStr(IF k = "date" THEN <<2125, 7, 1>>
                                                               ELSE <<"e2">>)])
RecNoDate == JObj([k \in {"title"} |-> JStr(<<"Undated">>)])

StoreFiles ==
    {NoFile, GarbageFile, JsonFile(JNull), JsonFile(RecDerby), JsonFile(JStr(<<"x">>))}
    \cup {JsonFile(JList(l)) :
            l \in {<<>>, <<RecDerby>>, <<RecDerby, RecTwin>>, <<RecBare>>,
                   <<RecOdd, RecBare>>, <<RecDerby, RecNoTitle>>,
                   <<RecNoDate, RecDerby>>, <<RecBare, JInt(5)>>}}

StoreDays == {ymd2ord(2125, 7, 1), ymd2ord(2125, 7, 2)}

\* title, notes, kind and meta of an add_event call
AddArgs ==
    { [title |-> <<" ", "Derby", " ", "day", "\n">>, notes |-> <<"\t">>,
       kind |-> "free", meta |-> JNull],
      [title |-> <<"NEWS">>, notes |-> <<"late", " ">>, kind |-> "content",
       meta |-> JObj([season |-> JInt(1), matchday |-> JInt(1),
                      content_type |-> JStr("news"), offset |-> JInt(0)])] }

\* an id no record has
MissingId == <<"e9">>

InitStore ==
    /\ cfgFile = ExampleConfigFile
    /\ cfgRes = NotCalled
    /\ season = 1
    /\ matchday = 1
    /\ content_type = "news"
    /\ offset_days = 0
    /\ retAlloc = [b \in BOOLEAN |-> NotCalled]
    /\ dIn = 0
    /\ retMd = NotCalled
    /\ retTrip = NotCalled
    /\ retRev = NotCalled
    /\ retInv = NotCalled
    /\ stateFile = NoFile
    /\ ui_state = DefaultUIState
    /\ eventsFile \in StoreFiles
    /\ events = <<>>
    /\ picked_date = 0
    /\ cal_year = 0
    /\ cal_month = 0
    /\ nextId = 1
    /\ lastCall = NoCall
    /\ CliIdle
    /\ sessions = NoSessions

\* what no events_store function touches
storeFrame ==
    <<cfgFile, cfgRes, argVars, mdVars, stateFile, ui_state, picked_date, cal_year,
      cal_month, cliVars, sessions>>

\* a session starts (the previous one ended or crashed): events = load_events()
LoadEvents ==
    /\ nextId + uuid_calls(eventsFile) - 1 <= MaxUuid
    /\ events' = load_events(eventsFile, nextId)
    /\ nextId' = nextId + uuid_calls(eventsFile)
    /\ lastCall' = [op |-> "load_events"]
    /\ UNCHANGED <<eventsFile, storeFrame>>

\* ev = add_event(events, d=d, title=..., notes=..., kind=..., meta=...)
AddEvent(d, a) ==
    /\ nextId <= MaxUuid
    /\ events' = add_event(events, uuid4hex(nextId), d, a.title, a.notes, a.kind, a.meta)
    /\ nextId' = nextId + 1
    /\ lastCall' = [op |-> "add_event", d |-> d, title |-> a.title, notes |-> a.notes,
                     kind |-> a.kind, meta |-> a.meta,
                     ret |-> new_event(uuid4hex(nextId), d, a.title, a.notes, a.kind,
                                       a.meta)]
    /\ eventsFile' = file_after_edit(eventsFile, events')
    /\ UNCHANGED storeFrame

\* delete_event(events, event_id)
DeleteEvent(event_id) ==
    /\ events' = delete_event(events, event_id)
    /\ lastCall' = [op |-> "delete_event", event_id |-> event_id,
                     undoes_add |-> (lastCall.op = "add_event"
                                        /\ lastCall.ret.id = event_id)]
    /\ eventsFile' = file_after_edit(eventsFile, events')
    /\ UNCHANGED <<nextId, storeFrame>>

\* save_events(events)
SaveEvents ==
    /\ eventsFile' = save_events(events)
    /\ lastCall' = [op |-> "save_events"]
    /\ UNCHANGED <<events, nextId, storeFrame>>

\* events_on(events, d)
CallEventsOn(d) ==
    /\ lastCall' = [op |-> "events_on", d |-> d, ret |-> events_on(events, d)]
    /\ UNCHANGED <<eventsFile, events, nextId, storeFrame>>

\* has_event_on(events, d)
CallHasEventOn(d) ==
    /\ lastCall' = [op |-> "has_event_on", d |-> d, ret |-> has_event_on(events, d)]
    /\ UNCHANGED <<eventsFile, events, nextId, storeFrame>>

NextStore ==
    \/ LoadEvents
    \/ \E d \in StoreDays, a \in AddArgs : AddEvent(d, a)
    \/ \E i \in 1..Len(events) : DeleteEvent(events[i].id)
    \/ DeleteEvent(MissingId)
    \/ SaveEvents
    \/ \E d \in StoreDays : CallEventsOn(d)
    \/ \E d \in StoreDays : CallHasEventOn(d)

SpecStore == InitStore /\ [][NextStore]_vars

----------------------------------------------------------------------------
(* Two browser sessions of app_timeaxis on one events.json.  Each keeps its *)
(* own st.session_state["events"], loaded when the session starts; every    *)
(* add and every delete is followed by save_events in the same script run.  *)

InitTwo ==
    /\ cfgFile = ExampleConfigFile
    /\ cfgRes = NotCalled
    /\ season = 1
    /\ matchday = 1
    /\ content_type = "news"
    /\ offset_days = 0
    /\ retAlloc = [b \in BOOLEAN |-> NotCalled]
    /\ dIn = 0
    /\ retMd = NotCalled
    /\ retTrip = NotCalled
    /\ retRev = NotCalled
    /\ retInv = NotCalled
    /\ stateFile = NoFile
    /\ ui_state = DefaultUIState
    /\ eventsFile \in {NoFile, JsonFile(JList(<<RecDerby>>))}
    /\ events = <<>>
    /\ picked_date = 0
    /\ cal_year = 0
    /\ cal_month = 0
    /\ nextId = 1
    /\ lastCall = NoCall
    /\ CliIdle
    /\ sessions = [s \in {"A", "B"} |-> [loaded |-> FALSE, events |-> <<>>]]

\* first script run of session s: st.session_state["events"] = load_events()
OpenSession(s) ==
    /\ ~sessions[s].loaded
    /\ nextId + uuid_calls(eventsFile) - 1 <= MaxUuid
    /\ sessions' = [sessions EXCEPT
           ![s] = [loaded |-> TRUE, events |-> load_events(eventsFile, nextId)]]
    /\ nextId' = nextId + uuid_calls(eventsFile)
    /\ UNCHANGED <<eventsFile, lastCall, cfgFile, cfgRes, argVars, mdVars, stateFile, ui_state, events,
                   picked_date, cal_year, cal_month, cliVars>>

\* session s adds an entry: add_event(events, ...); save_events(events)
SessionAdd(s, d, a) ==
    /\ sessions[s].loaded
    /\ nextId <= MaxUuid
    /\ sessions' = [sessions EXCEPT
           ![s].events = add_event(@, uuid4hex(nextId), d, a.title, a.notes, a.kind,
                                   a.meta)]
    /\ nextId' = nextId + 1
    /\ eventsFile' = save_events(sessions'[s].events)
    /\ lastCall' = [op |-> "save_events", session |-> s]
    /\ UNCHANGED <<cfgFile, cfgRes, argVars, mdVars, stateFile, ui_state, events,
                   picked_date, cal_year, cal_month, cliVars>>

\* session s deletes entry i of its list: delete_event(events, e.id); save_events(events)
SessionDelete(s, i) ==
    /\ sessions[s].loaded
    /\ i \in 1..Len(sessions[s].events)
    /\ sessions' = [sessions EXCEPT
           ![s].events = delete_event(@, sessions[s].events[i].id)]
    /\ eventsFile' = save_events(sessions'[s].events)
    /\ lastCall' = [op |-> "save_events", session |-> s]
    /\ UNCHANGED <<nextId, cfgFile, cfgRes, argVars, mdVars, stateFile, ui_state, events,
                   picked_date, cal_year, cal_month, cliVars>>

NextTwo ==
    \/ \E s \in {"A", "B"} : OpenSession(s)
    \/ \E s \in {"A", "B"}, d \in StoreDays, a \in AddArgs : SessionAdd(s, d, a)
    \/ \E s \in {"A", "B"}, i \in 1..(MaxUuid + 1) : SessionDelete(s, i)

SpecTwo == InitTwo /\ [][NextTwo]_vars

----------------------------------------------------------------------------
(* app_timeaxis.render with "Season speichern": the session may rewrite     *)
(* canon_time_config.json, which the next script run loads.                 *)

\* canon_time_config.json after write_season_start_into_config
write_season_start_into_config(file, new_season, start_date) ==
    IF ~file.exists \/ ~file.wellformed THEN file
    ELSE IF file.json.t # "obj" THEN file
    ELSE LET d == file.json.v
             starts == IF "season_start" \notin DOMAIN d THEN [k \in {} |-> JNull]
                       ELSE IF d["season_start"].t # "obj" THEN [k \in {} |-> JNull]
                       ELSE d["season_start"].v
         IN  JsonFile(JObj(With(d, "season_start",
                 JObj(With(starts, ToString(new_season), JStr(isoformat(start_date)))))))

\* "Season speichern"
SaveSeason(new_season, new_start) ==
    /\ cfgRes.kind = "ok"
    /\ new_season >= 1
    /\ cfgFile' = write_season_start_into_config(cfgFile, new_season, new_start)
    /\ cfgRes' = load_config(cfgFile')
    /\ UNCHANGED <<argVars, mdVars, uiVars, storeVars, cliVars, sessions>>

NextSeason ==
    \/ \E s \in Seasons : EditSeason(s)
    \/ \E m \in 1..MaxFormMatchday : EditMatchday(m)
    \/ Berechnen
    \/ ContentToKalender
    \/ \E i \in 1..MaxAdds : DeleteEntry(i)
    \/ \E free_title \in FreeTitles : FreeEntry(free_title)
    \/ \E new_season \in {1, 2},
          new_start \in {ymd2ord(2125, 7, 1), ymd2ord(2125, 7, 2)} :
          SaveSeason(new_season, new_start)

SpecSeason == InitUI /\ [][NextSeason]_vars

----------------------------------------------------------------------------
(* app_timeaxis.render: the allocator form of a session that starts on a    *)
(* ui_state.json an earlier session left.                                   *)

FormConfigFiles ==
    { ConfigDoc(<<2125, 7, 4>>, [k \in {"1"} |-> JStr(ExampleStart)], JInt(3),
                [k \in {"news", "episode", "sim"} |->
                    CASE k = "news" -> Rule(0, 1)
                      [] k = "episode" -> Rule(0, 0)
                      [] k = "sim" -> Rule(1, 2)]),
      ConfigDoc(<<2125, 7, 4>>, [k \in {"1"} |-> JStr(ExampleStart)], JInt(3),
                [k \in {"news", "episode", "sim"} |->
                    CASE k = "news" -> Rule(-2, -1)
                      [] k = "episode" -> Rule(2, 2)
                      [] k = "sim" -> Rule(-1, 1)]) }

\* ui_state.json as an earlier session or an editor left it, with offsets
\* inside and outside every rule
FormStateFiles ==
    {NoFile}
    \cup { save_state([season |-> 1, matchday |-> 1, content_type |-> ct,
                       offset |-> o, allow_future |-> FALSE]) :
             ct \in {"news", "sim", "promo"}, o \in (0 - MaxOffset - 1)..(MaxOffset + 1) }

InitForm ==
    /\ cfgFile \in FormConfigFiles
    /\ cfgRes = load_config(cfgFile)
    /\ season = 1
    /\ matchday = 1
    /\ content_type = "news"
    /\ offset_days = 0
    /\ retAlloc = [b \in BOOLEAN |-> NotCalled]
    /\ dIn = 0
    /\ retMd = NotCalled
    /\ retTrip = NotCalled
    /\ retRev = NotCalled
    /\ retInv = NotCalled
    /\ stateFile \in FormStateFiles
    /\ eventsFile = NoFile
    /\ ui_state = FormOf(cfg, load_state(stateFile))
    /\ events = load_events(eventsFile, 1)
    /\ picked_date = FirstPicked(cfg, load_state(stateFile))
    /\ cal_year = ord2ymd(picked_date)[1]
    /\ cal_month = ord2ymd(picked_date)[2]
    /\ nextId = 1
    /\ lastCall = NoCall
    /\ CliIdle
    /\ sessions = NoSessions

NextForm ==
    \/ \E ct \in ContentTypes : EditType(ct)
    \/ \E o \in Offsets : EditOffset(o)
    \/ Berechnen
    \/ ContentToKalender

SpecForm == InitForm /\ [][NextForm]_vars

----------------------------------------------------------------------------
(* Calls of the state_store functions on one ui_state.json: load_state,     *)
(* save_state, delete_state.                                                *)

\* the records save_state is given: the values of the allocator form
UIStates ==
    [season : {1, 2}, matchday : {1, 3}, content_type : {"news", "sim"},
     offset : {-1, 0, 2}, allow_future : BOOLEAN]

\* a well-shaped state document
StateDoc(st) == save_state(st).json.v

\* ui_state.json as an earlier session, an editor or a crash left it
StateFiles ==
    {NoFile, GarbageFile, JsonFile(JNull), JsonFile(JList(<<JInt(1)>>)),
     JsonFile(JObj([k \in {} |-> JNull])),
     JsonFile(JObj([k \in {"season"} |-> JInt(2)]))}
    \cup {JsonFile(JObj(With(StateDoc(DefaultUIState), k, v))) :
            k \in {"season", "offset"}, v \in {JNull, JStr("x"), JStr("2"), JList(<<>>)}}
    \cup {JsonFile(JObj(With(StateDoc(DefaultUIState), "allow_future", v))) :
            v \in {JStr("false"), JInt(1), JNull}}

InitState ==
    /\ cfgFile = ExampleConfigFile
    /\ cfgRes = NotCalled
    /\ season = 1
    /\ matchday = 1
    /\ content_type = "news"
    /\ offset_days = 0
    /\ retAlloc = [b \in BOOLEAN |-> NotCalled]
    /\ dIn = 0
    /\ retMd = NotCalled
    /\ retTrip = NotCalled
    /\ retRev = NotCalled
    /\ retInv = NotCalled
    /\ stateFile \in StateFiles
    /\ ui_state = DefaultUIState
    /\ eventsFile = NoFile
    /\ events = <<>>
    /\ picked_date = 0
    /\ cal_year = 0
    /\ cal_month = 0
    /\ nextId = 1
    /\ lastCall = NoCall
    /\ CliIdle
    /\ sessions = NoSessions

\* session_state["ui_state"] = load_state()
LoadState ==
    /\ ui_state' = load_state(stateFile)
    /\ lastCall' = [op |-> "load_state", ret |-> load_state(stateFile)]
    /\ UNCHANGED <<stateFile, cfgFile, cfgRes, argVars, mdVars, eventsFile, events,
                   picked_date, cal_year, cal_month, nextId, cliVars, sessions>>

\* save_state(state)
SaveState(st) ==
    /\ stateFile' = save_state(st)
    /\ lastCall' = [op |-> "save_state", state |-> st]
    /\ UNCHANGED <<ui_state, cfgFile, cfgRes, argVars, mdVars, eventsFile, events,
                   picked_date, cal_year, cal_month, nextId, cliVars, sessions>>

\* delete_state()
DeleteState ==
    /\ stateFile' = delete_state(stateFile)
    /\ lastCall' = [op |-> "delete_state"]
    /\ UNCHANGED <<ui_state, cfgFile, cfgRes, argVars, mdVars, eventsFile, events,
                   picked_date, cal_year, cal_month, nextId, cliVars, sessions>>

NextState ==
    \/ LoadState
    \/ \E st \in UIStates : SaveState(st)
    \/ DeleteState

SpecState == InitState /\ [][NextState]_vars

----------------------------------------------------------------------------
(* canon_time alloc: one run of the command line, from parse_args to the    *)
(* exit of the process.                                                     *)

\* alloc.add_argument("--type", choices=[...])
TypeChoices == {"episode", "sim", "promo", "news"}

\* the process has ended with status n
Exited(n) == [kind |-> "exit", val |-> n, err |-> ""]

\* print(inworld.isoformat())
DateLine(iso) == [line |-> "date", iso |-> iso]
\* print(f"[dry-run] Would write {field}={obj[field]} into {json_path}")
DryRunLine(field, iso) == [line |-> "[dry-run] Would write", field |-> field, iso |-> iso]
\* print(f"Wrote {field}={obj[field]} into {json_path}")
WroteLine(field, iso) == [line |-> "Wrote", field |-> field, iso |-> iso]

\* path.write_text(json.dumps(obj, ...))
save_json(obj) == JsonFile(obj)

\* mutant: --dry-run is not honoured
write_inworld_date_despite_dry_run(file, inworld_date, field, dry_run) ==
    IF ~file.exists
    THEN [file |-> file, out |-> <<>>, res |-> Raise("FileNotFoundError")]
    ELSE IF ~file.wellformed
    THEN [file |-> file, out |-> <<>>, res |-> Raise("JSONDecodeError")]
    ELSE IF file.json.t # "obj"
    THEN [file |-> file, out |-> <<>>, res |-> Raise("TypeError")]
    ELSE LET obj == With(file.json.v, field, JStr(isoformat(inworld_date))) IN
         [file |-> save_json(JObj(obj)),
          out |-> <<WroteLine(field, obj[field].v)>>,
          res |-> None]

\* the target file afterwards, the lines printed, and None or the exception raised
write_inworld_date(file, inworld_date, field, dry_run) ==
    IF ~file.exists
    THEN [file |-> file, out |-> <<>>, res |-> Raise("FileNotFoundError")]
    ELSE IF ~file.wellformed
    THEN [file |-> file, out |-> <<>>, res |-> Raise("JSONDecodeError")]
    ELSE IF file.json.t # "obj"
    THEN [file |-> file, out |-> <<>>, res |-> Raise("TypeError")]
    ELSE LET obj == With(file.json.v, field, JStr(isoformat(inworld_date))) IN
         IF dry_run
         THEN [file |-> file,
               out |-> <<DryRunLine(field, obj[field].v)>>,
               res |-> None]
         ELSE [file |-> save_json(JObj(obj)),
               out |-> <<WroteLine(field, obj[field].v)>>,
               res |-> None]

\* cmd_alloc(args): what load_config and allocate_inworld_date gave, the target
\* file afterwards, the lines printed, and the value returned or the exception
cmd_alloc(config, target, s, m, t, o, opts) ==
    LET c == load_config(config) IN
    IF c.kind # "ok"
    THEN [cfg |-> c, inworld |-> NotCalled, file |-> target, out |-> <<>>, res |-> c]
    ELSE LET inworld == allocate_inworld_date(c.val, s, m, t, o, opts.allow_future) IN
    IF inworld.kind # "ok"
    THEN [cfg |-> c, inworld |-> inworld, file |-> target, out |-> <<>>,
          res |-> inworld]
    ELSE LET printed == <<DateLine(isoformat(inworld.val))>> IN
    IF ~opts.write
    THEN [cfg |-> c, inworld |-> inworld, file |-> target, out |-> printed,
          res |-> Ok(0)]
    ELSE LET w == write_inworld_date(target, inworld.val, opts.field, opts.dry_run) IN
         [cfg |-> c, inworld |-> inworld, file |-> w.file, out |-> printed \o w.out,
          res |-> IF w.res.kind = "raise" THEN w.res ELSE Ok(0)]

\* mutant: the process ends with status 0 whatever happened
exit_status_always_zero(res) == 0

\* raise SystemExit(main()): the value returned, or 1 after an uncaught exception
exit_status(res) == IF res.kind = "raise" THEN 1 ELSE res.val

\* the command lines the model runs
\* --season, --matchday, --type, --offset: each varied around season 1, matchday 1
CliArgs ==
    ({1, 2} \X {1} \X {"news"} \X {0})
    \cup ({1} \X {0, 1, 3} \X {"news"} \X {0, 2})
    \cup ({1} \X {1} \X {"news", "sim", "recap"} \X {0, 2})
\* cmd_alloc reads --field and --dry-run only when --write is given
CliOptions ==
    { opts \in [allow_future : BOOLEAN, write : BOOLEAN,
                field : {"inWorldDate", "date"}, dry_run : BOOLEAN] :
        ~opts.write => (opts.field = "inWorldDate" /\ ~opts.dry_run) }

\* a configuration with a content type of its own ("recap") and without "sim"
CliConfigDoc ==
    ConfigDoc(<<2125, 7, 4>>, [k \in {"1"} |-> JStr(ExampleStart)], JInt(3),
              [k \in {"news", "recap"} |-> IF k = "news" THEN Rule(-1, 1) ELSE Rule(0, 2)])

CliConfigFiles ==
    {CliConfigDoc, NoFile, JsonFile(JObj(Without(CliConfigDoc.json.v, "season_start")))}

\* the documents --write may name
CliTargets ==
    {NoFile, GarbageFile, JsonFile(JList(<<>>)),
     JsonFile(JObj([k \in {"id"} |-> JInt(7)])),
     JsonFile(JObj([k \in {"id", "inWorldDate"} |->
                       IF k = "id" THEN JInt(7) ELSE JStr(<<2125, 1, 1>>)]))}

InitCli ==
    /\ cfgFile \in CliConfigFiles
    /\ cfgRes = NotCalled
    /\ season = 1
    /\ matchday = 1
    /\ content_type = "news"
    /\ offset_days = 0
    /\ retAlloc = [b \in BOOLEAN |-> NotCalled]
    /\ dIn = 0
    /\ retMd = NotCalled
    /\ retTrip = NotCalled
    /\ retRev = NotCalled
    /\ retInv = NotCalled
    /\ stateFile = NoFile
    /\ ui_state = DefaultUIState
    /\ eventsFile = NoFile
    /\ events = <<>>
    /\ picked_date = 0
    /\ cal_year = 0
    /\ cal_month = 0
    /\ nextId = 1
    /\ lastCall = NoCall
    /\ cliOpts = [allow_future |-> FALSE, write |-> FALSE, field |-> "inWorldDate",
                  dry_run |-> FALSE]
    /\ targetFile \in CliTargets
    /\ stdout = <<>>
    /\ exitStatus = NotCalled
    /\ sessions = NoSessions

\* python canon_time.py alloc --season s --matchday m --type t --offset o ...
Main(s, m, t, o, opts) ==
    /\ season' = s
    /\ matchday' = m
    /\ content_type' = t
    /\ offset_days' = o
    /\ cliOpts' = opts
    /\ IF t \notin TypeChoices
       THEN \* parser.parse_args(): error, usage on stderr, SystemExit(2)
            /\ cfgRes' = NotCalled
            /\ retAlloc' = [b \in BOOLEAN |-> NotCalled]
            /\ stdout' = <<>>
            /\ exitStatus' = Exited(2)
            /\ UNCHANGED targetFile
       ELSE LET r == cmd_alloc(cfgFile, targetFile, s, m, t, o, opts) IN
            /\ cfgRes' = r.cfg
            /\ retAlloc' = [b \in BOOLEAN |->
                              IF b = opts.allow_future THEN r.inworld ELSE NotCalled]
            /\ stdout' = r.out
            /\ exitStatus' = Exited(exit_status(r.res))
            /\ targetFile' = r.file
    /\ UNCHANGED <<cfgFile, mdVars, uiVars, storeVars, sessions>>

NextCli ==
    \E a \in CliArgs, opts \in CliOptions : Main(a[1], a[2], a[3], a[4], opts)

SpecCli == InitCli /\ [][NextCli]_vars

----------------------------------------------------------------------------
(* What the claims say of a call, in terms of the loaded configuration and  *)
(* the call's arguments.                                                    *)

SeasonOk == season \in DOMAIN cfg.season_start
MatchdayOk == matchday >= 1
TypeOk == content_type \in DOMAIN cfg.offset_rules
MinOff == cfg.offset_rules[content_type][1]
MaxOff == cfg.offset_rules[content_type][2]
OffsetOk == MinOff <= offset_days /\ offset_days <= MaxOff
\* season_start[season] + (matchday - 1) * matchday_interval_days
BaseDate == cfg.season_start[season] + (matchday - 1) * cfg.matchday_interval_days
Candidate == BaseDate + offset_days
InputsValid == SeasonOk /\ MatchdayOk /\ TypeOk /\ OffsetOk
Called(r) == r.kind # "notcalled"

----------------------------------------------------------------------------
(* C1: with allow_future = False, allocate_inworld_date never returns a     *)
(* date later than world_today; for otherwise valid inputs it fails with    *)
(* the future-date error when matchday_date + offset_days > world_today and *)
(* returns the date when it is equal to world_today or earlier.             *)
C1_NoFutureStrict ==
    Called(retAlloc[FALSE]) =>
        /\ retAlloc[FALSE].kind = "ok" => retAlloc[FALSE].val <= cfg.world_today
        /\ InputsValid =>
              IF Candidate > cfg.world_today
              THEN retAlloc[FALSE] = Raise(ErrFuture)
              ELSE retAlloc[FALSE] = Ok(Candidate)

\* the boundary: the candidate is world_today itself and is returned
C1_Witness ==
    /\ retAlloc[FALSE].kind = "ok"
    /\ retAlloc[FALSE].val = cfg.world_today

(* C2: if the call with allow_future = False returns d, the same call with  *)
(* allow_future = True returns the same d; if the allow_future = False call *)
(* fails because of the future-date gate, the allow_future = True call      *)
(* returns matchday_date + offset_days.                                     *)
C2_OverrideAgrees ==
    (Called(retAlloc[FALSE]) /\ Called(retAlloc[TRUE])) =>
        /\ retAlloc[FALSE].kind = "ok" => retAlloc[TRUE] = retAlloc[FALSE]
        /\ retAlloc[FALSE] = Raise(ErrFuture) => retAlloc[TRUE] = Ok(Candidate)

C2_Witness ==
    /\ retAlloc[FALSE] = Raise(ErrFuture)
    /\ retAlloc[TRUE].kind = "ok"
    /\ retAlloc[TRUE].val > cfg.world_today

(* C3: for every content type of offset_rules with rule (min, max), the     *)
(* call fails for every offset_days < min and every offset_days > max,      *)
(* accepts offset_days = min and offset_days = max, and a returned date is  *)
(* exactly matchday_date + offset_days.                                     *)
C3_OffsetBounds ==
    \A b \in BOOLEAN :
        (Called(retAlloc[b]) /\ SeasonOk /\ MatchdayOk /\ TypeOk) =>
            /\ (offset_days < MinOff \/ offset_days > MaxOff) =>
                   retAlloc[b] = Raise(ErrOffset)
            /\ (offset_days = MinOff \/ offset_days = MaxOff) =>
                   retAlloc[b] # Raise(ErrOffset)
            /\ retAlloc[b].kind = "ok" => retAlloc[b].val = Candidate

(* C5: allocate_inworld_date fails with the error of the first violated     *)
(* check, in the order season, matchday, content type, offset, future-date  *)
(* gate; checks 1-4 fail regardless of allow_future; a date is returned     *)
(* only when no check is violated.                                          *)
C5_ValidationOrder ==
    \A b \in BOOLEAN :
        Called(retAlloc[b]) =>
            /\ ~SeasonOk => retAlloc[b] = Raise(ErrMissingSeason)
            /\ (SeasonOk /\ ~MatchdayOk) => retAlloc[b] = Raise(ErrMatchday)
            /\ (SeasonOk /\ MatchdayOk /\ ~TypeOk) => retAlloc[b] = Raise(ErrUnknownType)
            /\ (SeasonOk /\ MatchdayOk /\ TypeOk /\ ~OffsetOk) =>
                   retAlloc[b] = Raise(ErrOffset)
            /\ (InputsValid /\ ~b /\ Candidate > cfg.world_today) =>
                   retAlloc[b] = Raise(ErrFuture)
            /\ retAlloc[b].kind = "ok" <=>
                   (InputsValid /\ (b \/ Candidate <= cfg.world_today))

\* season, matchday and content type are all invalid: the season's error wins,
\* also with allow_future = True
C5_Witness ==
    /\ retAlloc[TRUE] = Raise(ErrMissingSeason)
    /\ ~SeasonOk /\ ~MatchdayOk /\ ~TypeOk

(* C7: with the example configuration (world_today 2125-07-20, season 1     *)
(* starting 2125-07-01, interval 3, news rule [-1, 1]) the call             *)
(* (1, 10, "news", 1) fails with the future-date block when allow_future is *)
(* False and returns 2125-07-28 when it is True.                            *)
ExampleCall ==
    /\ cfgFile = ExampleConfigFile
    /\ season = 1 /\ matchday = 10 /\ content_type = "news" /\ offset_days = 1

\* the claim as stated: the allow_future = True call returns 2125-07-28
C7_ExampleAsStated ==
    ExampleCall =>
        /\ Called(retAlloc[FALSE]) => retAlloc[FALSE] = Raise(ErrFuture)
        /\ Called(retAlloc[TRUE]) =>
              /\ retAlloc[TRUE].kind = "ok"
              /\ isoformat(retAlloc[TRUE].val) = <<2125, 7, 28>>

(* C7 as amended: matchday 10 is 2125-07-28, and with offset 1 the          *)
(* allow_future = True call returns 2125-07-29; the allow_future = False    *)
(* call fails with the future-date block.                                   *)
C7_ExampleAmended ==
    ExampleCall =>
        /\ Called(retAlloc[FALSE]) => retAlloc[FALSE] = Raise(ErrFuture)
        /\ Called(retAlloc[TRUE]) =>
              /\ retAlloc[TRUE].kind = "ok"
              /\ isoformat(retAlloc[TRUE].val) = <<2125, 7, 29>>
              /\ isoformat(retAlloc[TRUE].val - offset_days) = <<2125, 7, 28>>

C7_Witness ==
    /\ ExampleCall
    /\ Called(retAlloc[FALSE])
    /\ Called(retAlloc[TRUE])

----------------------------------------------------------------------------
(* C4: for every season of season_start and every matchday >= 1,            *)
(* matchday_date returns season_start[season] + (matchday - 1) *            *)
(* matchday_interval_days; matchday 1 is the season start date.             *)
C4_MatchdayDateExact ==
    (Called(retMd) /\ SeasonOk /\ MatchdayOk) =>
        /\ retMd = Ok(cfg.season_start[season]
                      + (matchday - 1) * cfg.matchday_interval_days)
        /\ matchday = 1 => retMd.val = cfg.season_start[season]

C4_Witness ==
    /\ retMd.kind = "ok"
    /\ matchday = 3
    /\ cfg.matchday_interval_days = 3
    /\ retMd.val = cfg.season_start[season] + 6

(* C6: round trip: for every loaded configuration, every season with a      *)
(* configured start and every n >= 1,                                       *)
(* md_for_date(cfg, season, matchday_date(cfg, season, n)) returns n; it    *)
(* neither returns None nor raises.                                         *)
C6_RoundTrip ==
    Called(retTrip) => retTrip = Ok(matchday)

(* C9: md_for_date never raises; it returns None when the season has no     *)
(* configured start, when the date precedes the season start, or when the   *)
(* days elapsed are not an exact multiple of matchday_interval_days; in     *)
(* every other case it returns 1 + elapsed_days / matchday_interval_days.   *)
Elapsed == dIn - cfg.season_start[season]

C9_ReverseLookup ==
    Called(retRev) =>
        /\ retRev.kind # "raise"
        /\ ~SeasonOk => retRev = None
        /\ (SeasonOk /\ Elapsed < 0) => retRev = None
        /\ (SeasonOk /\ Elapsed >= 0
                /\ \A q \in -Elapsed..Elapsed :
                       q * cfg.matchday_interval_days # Elapsed) => retRev = None
        /\ (SeasonOk /\ Elapsed >= 0
                /\ \E q \in -Elapsed..Elapsed :
                       q * cfg.matchday_interval_days = Elapsed) =>
               /\ retRev.kind = "ok"
               /\ (retRev.val - 1) * cfg.matchday_interval_days = Elapsed

(* C10: whenever md_for_date(cfg, season, d) returns a number n, n >= 1 and *)
(* matchday_date(cfg, season, n) = d.                                       *)
C10_Inverse ==
    retRev.kind = "ok" =>
        /\ retRev.val >= 1
        /\ Called(retInv) => retInv = Ok(dIn)

----------------------------------------------------------------------------
(* C8: the schedule action ("Content -> Kalender") records no event of kind *)
(* "content" with a date later than world_today unless the allow-future     *)
(* flag of the allocator form is set; with the flag unset such a candidate  *)
(* is blocked and no event is stored.                                       *)
EventDay(e) == fromisoformat(JStr(e.date)).val

ContentAdded ==
    /\ Len(events') = Len(events) + 1
    /\ events'[Len(events')].kind = "content"

C8_GateOnSchedule ==
    [][(ContentAdded /\ EventDay(events'[Len(events')]) > cfg.world_today)
           => ui_state.allow_future]_vars

(* C8 as amended: the schedule action calls allocate_inworld_date with      *)
(* allow_future = True whatever the form's flag is: from every form state   *)
(* it stores and saves a "content" event dated matchday_date + offset, also *)
(* when that date is later than world_today and the flag is unset.          *)
FormCandidate ==
    cfg.season_start[ui_state.season]
        + (ui_state.matchday - 1) * cfg.matchday_interval_days + ui_state.offset

C8_ScheduleIgnoresFlag ==
    (cfgRes.kind = "ok" /\ nextId <= MaxAdds) =>
        ENABLED (/\ ContentToKalender
                 /\ ContentAdded
                 /\ events'[Len(events')].date = isoformat(FormCandidate)
                 /\ events'[Len(events')].meta = ContentMeta(ui_state)
                 /\ SubSeq(events', 1, Len(events)) = events
                 /\ eventsFile' = save_events(events'))

\* a content event after world_today is in the list and in the file while the
\* form that made it has the flag unset
C8_Witness ==
    /\ Len(events) >= 1
    /\ ~ui_state.allow_future
    /\ events[Len(events)].kind = "content"
    /\ events[Len(events)].meta = ContentMeta(ui_state)
    /\ EventDay(events[Len(events)]) > cfg.world_today
    /\ picked_date = EventDay(events[Len(events)])
    /\ eventsFile = save_events(events)

----------------------------------------------------------------------------
(* C11: every configuration load_config returns has min <= max for every    *)
(* entry of offset_rules; a file with a rule whose min > max is not         *)
(* accepted.                                                                *)
C11_RulesOrdered ==
    cfgRes.kind = "ok" =>
        \A k \in DOMAIN cfg.offset_rules :
            cfg.offset_rules[k][1] <= cfg.offset_rules[k][2]

(* C12: every configuration load_config returns has                         *)
(* matchday_interval_days >= 1, and 3 when the key is absent from the file. *)
C12_IntervalPositive ==
    cfgRes.kind = "ok" =>
        /\ cfg.matchday_interval_days >= 1
        /\ "matchday_interval_days" \notin DOMAIN cfgFile.json.v =>
               cfg.matchday_interval_days = 3

(* C13: load_config fails whenever the file is missing, whenever            *)
(* season_start or offset_rules is missing, not an object or empty, and     *)
(* whenever an offset rule is not exactly a two-element list of integers;   *)
(* a returned configuration has a non-empty season_start, a non-empty       *)
(* offset_rules and a (min, max) integer pair for every rule.               *)
SectionBad(key) ==
    \/ key \notin DOMAIN cfgFile.json.v
    \/ cfgFile.json.v[key].t # "obj"
    \/ DOMAIN cfgFile.json.v[key].v = {}

RuleIsIntPair(v) ==
    /\ v.t = "list"
    /\ Len(v.v) = 2
    /\ v.v[1].t = "int"
    /\ v.v[2].t = "int"

C13_SchemaErrors ==
    Called(cfgRes) =>
        /\ ~cfgFile.exists => cfgRes.kind = "raise"
        /\ (cfgFile.exists /\ cfgFile.wellformed /\ cfgFile.json.t = "obj") =>
              /\ (SectionBad("season_start") \/ SectionBad("offset_rules")) =>
                     cfgRes.kind = "raise"
              /\ (~SectionBad("offset_rules")
                    /\ \E k \in DOMAIN cfgFile.json.v["offset_rules"].v :
                          ~RuleIsIntPair(cfgFile.json.v["offset_rules"].v[k])) =>
                     cfgRes.kind = "raise"
        /\ cfgRes.kind = "ok" =>
              /\ DOMAIN cfg.season_start # {}
              /\ DOMAIN cfg.offset_rules # {}
              /\ \A k \in DOMAIN cfg.offset_rules :
                     /\ Len(cfg.offset_rules[k]) = 2
                     /\ cfg.offset_rules[k][1] \in Int
                     /\ cfg.offset_rules[k][2] \in Int

----------------------------------------------------------------------------
(* What the claims say of an events_store call: lastCall' is the call made  *)
(* by the step, events and eventsFile the list and the file before it.      *)

\* t is text without its surrounding whitespace
IsTrimOf(t, text) ==
    /\ t # <<>> => (~IsSpace(t[1]) /\ ~IsSpace(t[Len(t)]))
    /\ \E i \in 0..Len(text) : \E j \in i..Len(text) :
          /\ t = SubSeq(text, i + 1, j)
          /\ \A k \in (1..i) \cup ((j + 1)..Len(text)) : IsSpace(text[k])

\* the records of evs whose id is not event_id, in list order
RECURSIVE OtherIds(_, _)
OtherIds(evs, event_id) ==
    IF evs = <<>> THEN <<>>
    ELSE IF Head(evs).id # event_id THEN <<Head(evs)>> \o OtherIds(Tail(evs), event_id)
    ELSE OtherIds(Tail(evs), event_id)

\* the records of evs whose date string is iso, in list order
RECURSIVE DatedOn(_, _)
DatedOn(evs, iso) ==
    IF evs = <<>> THEN <<>>
    ELSE IF Head(evs).date = iso THEN <<Head(evs)>> \o DatedOn(Tail(evs), iso)
    ELSE DatedOn(Tail(evs), iso)

Last(evs) == evs[Len(evs)]
ButLast(evs) == SubSeq(evs, 1, Len(evs) - 1)

(* C14: add_event grows the list by exactly one record placed at the end,   *)
(* leaves the earlier records unchanged and in the same order, gives the    *)
(* new record an id different from every id already in the list, stores     *)
(* title and notes trimmed, and returns that same record.                   *)
C14_AddAppends ==
    [][lastCall'.op = "add_event" =>
          /\ Len(events') = Len(events) + 1
          /\ \A i \in 1..Len(events) : events'[i] = events[i]
          /\ \A i \in 1..Len(events) : events[i].id # Last(events').id
          /\ IsTrimOf(Last(events').title, lastCall'.title)
          /\ IsTrimOf(Last(events').notes, lastCall'.notes)
          /\ Last(events').date = isoformat(lastCall'.d)
          /\ Last(events').kind = lastCall'.kind
          /\ Last(events').meta = lastCall'.meta
          /\ lastCall'.ret = Last(events')]_vars

\* a second record was added behind a first one, its title and notes trimmed
C14_Witness ==
    /\ lastCall.op = "add_event"
    /\ Len(events) >= 2
    /\ lastCall.ret = Last(events)
    /\ Len(lastCall.ret.title) < Len(lastCall.title)
    /\ lastCall.ret.notes = <<>> /\ lastCall.notes # <<>>

(* C15: add_event and delete_event change only the in-memory list: the      *)
(* events file is unchanged until save_events is called, and a session      *)
(* that starts after an add_event that was not saved does not load the      *)
(* added event.                                                             *)
C15_NoAutoSave ==
    [][/\ lastCall'.op \in {"add_event", "delete_event"} => eventsFile' = eventsFile
       /\ lastCall'.op = "add_event" =>
              \A i \in 1..Len(load_events(eventsFile', nextId')) :
                  load_events(eventsFile', nextId')[i] # lastCall'.ret
       /\ (lastCall.op = "add_event" /\ lastCall'.op = "load_events") =>
              \A i \in 1..Len(events') : events'[i].id # lastCall.ret.id]_vars

\* the list holds an added event that the file, with records of its own, lacks
C15_Witness ==
    /\ lastCall.op = "add_event"
    /\ Len(load_events(eventsFile, nextId)) >= 1
    /\ Len(events) = Len(load_events(eventsFile, nextId)) + 1
    /\ \A i \in 1..Len(load_events(eventsFile, nextId)) :
           load_events(eventsFile, nextId)[i].id # lastCall.ret.id

(* C16: delete_event removes every record whose id equals the given id,     *)
(* keeps the other records unchanged and in their relative order, and       *)
(* leaves the list unchanged when no record has that id.                    *)
C16_DeleteById ==
    [][lastCall'.op = "delete_event" =>
          /\ \A i \in 1..Len(events') : events'[i].id # lastCall'.event_id
          /\ events' = OtherIds(events, lastCall'.event_id)
          /\ Len(events') = Len(events)
                 - Cardinality({i \in 1..Len(events) : events[i].id = lastCall'.event_id})
          /\ (\A i \in 1..Len(events) : events[i].id # lastCall'.event_id) =>
                 events' = events]_vars

\* two records shared the id: both are gone, the others are left
C16_Witness ==
    /\ lastCall.op = "delete_event"
    /\ lastCall.event_id = <<"e1">>
    /\ eventsFile = JsonFile(JList(<<RecDerby, RecTwin>>))
    /\ Len(events) = 1
    /\ events[1].id = uuid4hex(1)

(* C17: adding an event for date d with add_event and then deleting it with *)
(* delete_event, using the id add_event returned, leaves                    *)
(* events_on(events, d) empty.                                              *)
C17_AddDeleteLeavesDayEmpty ==
    [][(lastCall.op = "add_event" /\ lastCall'.op = "delete_event"
            /\ lastCall'.event_id = lastCall.ret.id) =>
          events_on(events', lastCall.d) = <<>>]_vars

(* C17 as amended: the add followed by the delete leaves the list, and so   *)
(* events_on(events, d), as it was before the add: the day keeps the events *)
(* it already had, and is empty only when it had none.                      *)
C17_AddDeleteRestores ==
    [][(lastCall.op = "add_event" /\ lastCall'.op = "delete_event"
            /\ lastCall'.event_id = lastCall.ret.id) =>
          /\ events' = ButLast(events)
          /\ events_on(events', lastCall.d) = events_on(ButLast(events), lastCall.d)
          /\ \A i \in 1..Len(events') : events'[i].id # lastCall.ret.id
          /\ (\A i \in 1..Len(ButLast(events)) :
                  ButLast(events)[i].date # isoformat(lastCall.d)) =>
                 events_on(events', lastCall.d) = <<>>]_vars

\* the added event was deleted by its id and the day still has an event
C17_Witness ==
    /\ lastCall.op = "delete_event"
    /\ lastCall.undoes_add
    /\ \E d \in StoreDays : events_on(events, d) # <<>>

(* C18: load_events never raises: it returns the empty list when the file   *)
(* is absent, is not valid JSON, is not a list of objects, or has a record  *)
(* without date or title; its result is the complete list of the file's     *)
(* records or the empty list, never a part of it.                           *)
C18_LoadAllOrNothing ==
    [][lastCall'.op = "load_events" =>
          /\ Len(events') >= 0
          /\ (\/ ~eventsFile.exists
               \/ ~eventsFile.wellformed
               \/ eventsFile.json.t # "list"
               \/ \E i \in 1..Len(eventsFile.json.v) :
                      \/ eventsFile.json.v[i].t # "obj"
                      \/ "date" \notin DOMAIN eventsFile.json.v[i].v
                      \/ "title" \notin DOMAIN eventsFile.json.v[i].v) =>
                 events' = <<>>
          /\ events' # <<>> =>
                 /\ Len(events') = Len(eventsFile.json.v)
                 /\ \A i \in 1..Len(events') :
                        /\ events'[i].date = PyStr(eventsFile.json.v[i].v["date"])
                        /\ events'[i].title = PyStr(eventsFile.json.v[i].v["title"])]_vars

\* the file's first record is good and its second has no title: nothing is loaded
C18_Witness ==
    /\ lastCall.op = "load_events"
    /\ eventsFile = JsonFile(JList(<<RecDerby, RecNoTitle>>))
    /\ events = <<>>

(* C19: save_events replaces the whole file content with the given list     *)
(* whatever the file held before, and a following load_events returns a     *)
(* list equal to the saved one record by record (id, date, title, notes,    *)
(* kind, meta) and in the same order.                                       *)
C19_SaveLoadRoundTrip ==
    [][/\ lastCall'.op = "save_events" =>
              /\ eventsFile'.exists /\ eventsFile'.wellformed
              /\ eventsFile'.json.t = "list"
              /\ Len(eventsFile'.json.v) = Len(events)
              /\ load_events(eventsFile', nextId) = events
       /\ (lastCall.op = "save_events" /\ lastCall'.op = "load_events") =>
              /\ Len(events') = Len(events)
              /\ \A i \in 1..Len(events) :
                     /\ events'[i].id = events[i].id
                     /\ events'[i].date = events[i].date
                     /\ events'[i].title = events[i].title
                     /\ events'[i].notes = events[i].notes
                     /\ events'[i].kind = events[i].kind
                     /\ events'[i].meta = events[i].meta]_vars

\* two added events, one of them with meta, were saved over a file that was
\* not valid JSON and loaded again
C19_Witness ==
    /\ lastCall.op = "load_events"
    /\ Len(events) = 2
    /\ events[1].id = uuid4hex(1) /\ events[2].id = uuid4hex(2)
    /\ \E i \in 1..2 : events[i].kind = "content" /\ events[i].meta # JNull
    /\ eventsFile = save_events(events)

(* C20: events_on(events, d) returns exactly the records whose date string  *)
(* equals d's ISO string, in list order and without modifying the list;     *)
(* has_event_on(events, d) is true exactly when events_on(events, d) is     *)
(* non-empty.                                                               *)
C20_EventsOnExact ==
    [][/\ lastCall'.op = "events_on" =>
              /\ events' = events
              /\ lastCall'.ret = DatedOn(events, ord2ymd(lastCall'.d))
       /\ lastCall'.op = "has_event_on" =>
              /\ events' = events
              /\ lastCall'.ret = (events_on(events, lastCall'.d) # <<>>)]_vars

\* two of the list's records are on the day and are returned in list order
C20_Witness ==
    /\ lastCall.op = "events_on"
    /\ Len(lastCall.ret) = 2
    /\ lastCall.ret = events
    /\ events[1].id # events[2].id

----------------------------------------------------------------------------
(* C21: for every UIState record, save_state followed by load_state returns *)
(* a record equal to the saved one in all five fields, whatever the state   *)
(* file held before the save.                                               *)
C21_StateRoundTrip ==
    [][/\ lastCall'.op = "save_state" =>
              /\ load_state(stateFile').season = lastCall'.state.season
              /\ load_state(stateFile').matchday = lastCall'.state.matchday
              /\ load_state(stateFile').content_type = lastCall'.state.content_type
              /\ load_state(stateFile').offset = lastCall'.state.offset
              /\ load_state(stateFile').allow_future = lastCall'.state.allow_future
       /\ (lastCall.op = "save_state" /\ lastCall'.op = "load_state") =>
              lastCall'.ret = lastCall.state]_vars

\* a record that differs from the defaults in every field came back
C21_Witness ==
    /\ lastCall.op = "load_state"
    /\ lastCall.ret = [season |-> 2, matchday |-> 3, content_type |-> "sim",
                        offset |-> -1, allow_future |-> TRUE]
    /\ stateFile = save_state(lastCall.ret)

(* C22: load_state never raises and returns the full default record         *)
(* whenever the state file is missing, also after delete_state, and         *)
(* whenever the file content has a parse or shape error.                    *)
\* the document has the shape of a UI state file: an object whose season,
\* matchday and offset are integers, content_type a string, allow_future a boolean
StateShapeOk(file) ==
    /\ file.wellformed
    /\ file.json.t = "obj"
    /\ \A k \in DOMAIN file.json.v :
          /\ k \in {"season", "matchday", "offset"} => file.json.v[k].t = "int"
          /\ k = "content_type" => file.json.v[k].t = "str"
          /\ k = "allow_future" => file.json.v[k].t = "bool"

C22_DefaultsOnError ==
    [][/\ (/\ lastCall'.op = "load_state"
           /\ ~stateFile.exists \/ ~StateShapeOk(stateFile)) =>
              lastCall'.ret = DefaultUIState
       /\ lastCall'.op = "delete_state" =>
              /\ ~stateFile'.exists
              /\ load_state(stateFile') = DefaultUIState]_vars

(* C23: a content type is accepted for allocation exactly when it is a key  *)
(* of the configured offset_rules, through every entry point: the CLI alloc *)
(* command takes a type added purely in the configuration file, and no      *)
(* fixed set of names restricts allocation.                                 *)
\* the run's allocation got past the content type check
TypeAccepted(status, inworld) ==
    /\ status.val # 2
    /\ inworld.kind = "raise" => inworld.err # ErrUnknownType

C23_TypeOpen ==
    [][LET c == load_config(cfgFile')
           inworld == retAlloc'[cliOpts'.allow_future]
       IN  (/\ c.kind = "ok"
            /\ season' \in DOMAIN c.val.season_start
            /\ matchday' >= 1) =>
               /\ \A t \in DOMAIN c.val.offset_rules :
                     allocate_inworld_date(c.val, season', matchday', t,
                         c.val.offset_rules[t][1], TRUE).kind = "ok"
               /\ TypeAccepted(exitStatus', inworld)
                     <=> content_type' \in DOMAIN c.val.offset_rules]_vars

(* C24: CLI alloc with --write PATH and --dry-run leaves the target         *)
(* document unchanged; with --write PATH and no --dry-run it sets exactly   *)
(* the field named by --field to the computed ISO date and leaves every     *)
(* other field of the document unchanged.                                   *)
\* new is old with exactly key set to value
SetsExactly(old, new, key, value) ==
    /\ new.exists /\ new.wellformed /\ new.json.t = "obj"
    /\ DOMAIN new.json.v = DOMAIN old.json.v \cup {key}
    /\ new.json.v[key] = value
    /\ \A k \in DOMAIN old.json.v \ {key} : new.json.v[k] = old.json.v[k]

C24_WriteAndDryRun ==
    [][LET inworld == retAlloc'[cliOpts'.allow_future] IN
       /\ (~cliOpts'.write \/ cliOpts'.dry_run) => targetFile' = targetFile
       /\ (cliOpts'.write /\ ~cliOpts'.dry_run /\ exitStatus'.val = 0) =>
              /\ inworld.kind = "ok"
              /\ SetsExactly(targetFile, targetFile', cliOpts'.field,
                             JStr(isoformat(inworld.val)))
       /\ (cliOpts'.write /\ ~cliOpts'.dry_run /\ exitStatus'.val # 0) =>
              targetFile' = targetFile]_vars

\* --field date was written into a document that keeps its id and inWorldDate
C24_Witness ==
    /\ exitStatus = Exited(0)
    /\ cliOpts.write /\ ~cliOpts.dry_run /\ cliOpts.field = "date"
    /\ stdout = <<DateLine(<<2125, 7, 7>>), WroteLine("date", <<2125, 7, 7>>)>>
    /\ targetFile = JsonFile(JObj([k \in {"id", "inWorldDate", "date"} |->
                         CASE k = "id" -> JInt(7)
                           [] k = "inWorldDate" -> JStr(<<2125, 1, 1>>)
                           [] k = "date" -> JStr(<<2125, 7, 7>>)]))

(* C25: CLI alloc ends with status 0 only when allocation succeeded; on any *)
(* validation failure (missing season, matchday < 1, out-of-range offset,   *)
(* future-date block, malformed config) it ends with a non-zero status,     *)
(* prints no date and leaves the --write target unchanged.                  *)
C25_ExitStatus ==
    [][LET inworld == retAlloc'[cliOpts'.allow_future] IN
       /\ exitStatus'.val = 0 => inworld.kind = "ok"
       /\ inworld.kind # "ok" =>
              /\ exitStatus'.val # 0
              /\ stdout' = <<>>
              /\ targetFile' = targetFile]_vars

\* a run blocked by the future-date gate, asked to write into a good document
C25_Witness ==
    /\ exitStatus = Exited(1)
    /\ cfgRes.kind = "ok"
    /\ retAlloc[FALSE] = Raise(ErrFuture)
    /\ cliOpts.write /\ ~cliOpts.dry_run
    /\ stdout = <<>>
    /\ targetFile = JsonFile(JObj([k \in {"id"} |-> JInt(7)]))

(* C26: with two sessions that each loaded the events file at their own     *)
(* start, the file after any save holds the in-memory list of the session   *)
(* that saved last; an event another session added and saved is lost.       *)
\* the records of a readable events file
FileList(file) == file.json.v

\* the ids of the records in the events file
FileIds(file) == {FileList(file)[i].v["id"].v : i \in 1..Len(FileList(file))}

C26_LastSaverWins ==
    lastCall.op = "save_events" =>
        LET mine == sessions[lastCall.session].events IN
        /\ eventsFile.exists /\ eventsFile.wellformed /\ eventsFile.json.t = "list"
        /\ Len(FileList(eventsFile)) = Len(mine)
        /\ \A i \in 1..Len(mine) : FileList(eventsFile)[i] = asdict(mine[i])

\* A added and saved an event, B saved afterwards, and the file lacks A's event
C26_Witness ==
    /\ lastCall.op = "save_events"
    /\ lastCall.session = "B"
    /\ sessions["A"].loaded /\ sessions["B"].loaded
    /\ \E i \in 1..Len(sessions["A"].events) :
          /\ sessions["A"].events[i].id = uuid4hex(1)
          /\ uuid4hex(1) \notin FileIds(eventsFile)

(* C27: in a single session, right after every UI action that changes the  *)
(* event list (Content -> Kalender, a free entry, a deletion) the events    *)
(* file holds exactly the in-memory list, also when the file was absent or  *)
(* unreadable when the session started.                                     *)
C27_FileFollowsList ==
    [][events' # events =>
          /\ eventsFile'.exists /\ eventsFile'.wellformed
          /\ eventsFile'.json.t = "list"
          /\ Len(FileList(eventsFile')) = Len(events')
          /\ \A i \in 1..Len(events') : FileList(eventsFile')[i] = asdict(events'[i])
          /\ load_events(eventsFile', nextId') = events']_vars

\* a free entry is the whole list and the whole file
C27_Witness ==
    /\ Len(events) = 1
    /\ events[1].kind = "free"
    /\ events[1].title = <<"Derby">>
    /\ eventsFile.exists /\ eventsFile.wellformed
    /\ FileList(eventsFile) = <<asdict(events[1])>>

(* C28: across any sequence of UI actions, saving a season included, every  *)
(* event of kind "content" keeps a date equal to season_start[meta.season]  *)
(* + (meta.matchday - 1) * matchday_interval_days + meta.offset under the   *)
(* configuration on disk, with meta.offset inside the rule of its type.     *)
OnSchedule(c, ev) ==
    LET m == ev.meta.v IN
    /\ m["season"].v \in DOMAIN c.season_start
    /\ m["content_type"].v \in DOMAIN c.offset_rules
    /\ ev.date = isoformat(c.season_start[m["season"].v]
                           + (m["matchday"].v - 1) * c.matchday_interval_days
                           + m["offset"].v)
    /\ c.offset_rules[m["content_type"].v][1] <= m["offset"].v
    /\ m["offset"].v <= c.offset_rules[m["content_type"].v][2]

C28_ContentOnSchedule ==
    LET c == load_config(cfgFile) IN
    c.kind = "ok" =>
        \A i \in 1..Len(events) :
            events[i].kind = "content" => OnSchedule(c.val, events[i])

(* C29: when allocation fails in a UI action nothing is modified: a failed  *)
(* "Berechnen" writes no UI state file and leaves the picked date and the   *)
(* calendar month unchanged; a failed "Content -> Kalender" adds no event   *)
(* and leaves the events file and the picked date unchanged.                *)
FormAllocation(allow_future) ==
    allocate_inworld_date(cfg, ui_state.season, ui_state.matchday,
                          ui_state.content_type, ui_state.offset, allow_future)

InRule(rule, o) == rule[1] <= o /\ o <= rule[2]

C30_FormOffsetInRule ==
    cfgRes.kind = "ok" =>
        LET stored == load_state(stateFile)
            fresh == FormOf(cfg, stored)
            rule == cfg.offset_rules[ui_state.content_type]
            fresh_rule == cfg.offset_rules[fresh.content_type]
        IN  /\ rule[1] <= rule[2] =>
                  /\ InRule(rule, ui_state.offset)
                  /\ rule[1] = rule[2] => ui_state.offset = rule[1]
                  /\ \A b \in BOOLEAN : FormAllocation(b).err # ErrOffset
            /\ fresh_rule[1] <= fresh_rule[2] =>
                  /\ InRule(fresh_rule, fresh.offset)
                  /\ fresh_rule[1] = fresh_rule[2] => fresh.offset = fresh_rule[1]
                  /\ (fresh_rule[1] # fresh_rule[2] /\ InRule(fresh_rule, stored.offset))
                         => fresh.offset = stored.offset
                  /\ (fresh_rule[1] # fresh_rule[2] /\ ~InRule(fresh_rule, stored.offset))
                         => fresh.offset = (IF InRule(fresh_rule, 0) THEN 0
                                            ELSE fresh_rule[1])

\* the session started on a stored offset below every rule, and after the switch
\* to a type whose rule does not contain 0 the form holds the rule's min
C30_Witness ==
    /\ cfgRes.kind = "ok"
    /\ stateFile.exists
    /\ load_state(stateFile).content_type = "news"
    /\ load_state(stateFile).offset = 0 - MaxOffset - 1
    /\ ui_state.content_type = "sim"
    /\ cfg.offset_rules["sim"] = <<1, 2>>
    /\ ui_state.offset = 1

====
